---- MODULE Spec2Model ----
(***************************************************************************)
(* Model of the Warp2Api gateway (x-isd/Warp2Api).                         *)
(*                                                                         *)
(*   SpecReorder : reorder_messages_for_anthropic applied to every history *)
(*                 of at most MaxHist messages (protobuf2openai/reorder.py)*)
(*   Spec        : the compat front-end, POST /v1/chat/completions, with   *)
(*                 the process-wide State (router.py, bridge.py, state.py, *)
(*                 packets.py)                                             *)
(*   SpecStream  : the generator stream_openai_sse reading the bridge's    *)
(*                 SSE lines (sse_transform.py)                            *)
(*   SpecCompat  : the behaviours of Spec together with those of           *)
(*                 SpecStream (both paths of a chat request)               *)
(*   SpecLoop    : several chat requests on the event loop of the compat   *)
(*                 server, sharing State (app.py, router.py, bridge.py)    *)
(*   SpecUpstream: parallel calls of send_protobuf_to_warp_api_parsed with *)
(*                 the credential manager (api_client.py, auth.py)         *)
(*   SpecSchema  : _sanitize_json_schema applied to tool input schemas     *)
(*                 (schema_sanitizer.py)                                   *)
(*                                                                         *)
(* Texts are sequences of tokens, so that concatenation is \o and the      *)
(* empty string is << >>.  A missing id or a None string is "".            *)
(***************************************************************************)
EXTENDS Integers, Sequences, FiniteSets, TLC

VARIABLES
    history,      \* reorder: the input List[ChatMessage]
    result,       \* reorder: the returned list
    rpc,          \* reorder: "idle" | "input" | "done"
    State,        \* state.py: the singleton STATE = BridgeState()
    req,          \* the ChatCompletionsRequest being handled
    packet,       \* the packet built by chat_completions
    pc,           \* position of the compat process (startup hook / handler)
    caller,       \* who runs initialize_once: "startup" | "chat"
    rounds,       \* initialize_once: health rounds that failed
    health,       \* initialize_once: "none" | "ok" | "down", the last health round
    attempts,     \* initialize_once: warmup attempts that failed
    posts,        \* chat POSTs sent to the bridge for the current request
    refreshes,    \* outcomes of the POSTs to /api/auth/refresh for the request
    bridge_resp,  \* resp.json() of the bridge's 200 answer
    reply,        \* what the handler answered to the client
    spc,          \* position of the generator stream_openai_sse
    nlines,       \* SSE lines read from the bridge on the streaming attempt
    upstream,     \* events the bridge has sent in full (data line, blank line)
    current,      \* payloads accumulated for the event being framed
    tool_calls_emitted,
    out,          \* items yielded by the generator, in order
    statuses,     \* status codes the bridge answered to the chat POSTs
    loop,         \* event loop: the handler running on it, 0 when it is free
    handlers,     \* event loop: one record per chat request
    warmups,      \* warmup requests the bridge has answered
    environ,      \* auth: os.environ (WARP_JWT, WARP_REFRESH_TOKEN)
    dotenv,       \* auth: the .env file (WARP_JWT, WARP_REFRESH_TOKEN)
    calls,        \* upstream client: one record per call in progress
    schema,       \* sanitizer: the input_schema given
    sanitized,    \* sanitizer: the schema returned
    zpc,          \* sanitizer: "off" | "input" | "done"
    smd,          \* codec: the server_message_data string given
    decoded,      \* codec: what decode_server_message_data returned
    encoded,      \* codec: what encode_server_message_data returned
    cpc,          \* codec: "off" | "input" | "decoded" | "done"
    enc,          \* codec: one call of encode_server_message_data, step by step
    session       \* stream_processor.py: one StreamSession and what it was given

vars == <<history, result, rpc, State, req, packet, pc, caller, rounds, health,
          attempts, posts, refreshes, bridge_resp, reply, spc, nlines,
          upstream, current, tool_calls_emitted, out, statuses,
          loop, handlers, warmups, environ, dotenv, calls,
          schema, sanitized, zpc, smd, decoded, encoded, cpc, enc, session>>

reorderVars == <<history, result, rpc>>
chatVars    == <<State, req, packet, pc, caller, rounds, health, attempts, posts,
                 refreshes, bridge_resp, reply>>
streamVars  == <<spc, nlines, upstream, current, tool_calls_emitted, out,
                 statuses>>
chatLocals  == <<req, packet, pc, caller, rounds, health, attempts, posts, refreshes,
                 bridge_resp, reply>>
loopVars    == <<loop, handlers, warmups>>
authVars    == <<environ, dotenv, calls>>
schemaVars  == <<schema, sanitized, zpc>>
codecVars   == <<smd, decoded, encoded, cpc, enc, session>>

----------------------------------------------------------------------------
(* Bounds                                                                  *)

MaxHist == 3        \* longest history given to the reorder pass
MaxSharedHist == 4  \* length of the histories whose assistants share a tool_call id
MaxChatHist == 2    \* longest messages[] of a chat request
MaxLines == 5       \* SSE lines the bridge sends on one stream
MaxPayloads == 3    \* payloads of one upstream stream given to the delta decoder
NumCalls == 2       \* upstream calls in progress at the same time
NumHandlers == 2    \* chat requests in progress at the same time
MaxWarmups == 2     \* warmup requests the bridge answers
MaxVarintBytes == 10  \* bytes of one varint the writer's loop is followed for
MaxChunks == 3      \* chunks given to one StreamSession

----------------------------------------------------------------------------
(* Generic helpers                                                         *)

RECURSIVE Flatten(_)
Flatten(ss) == IF ss = << >> THEN << >> ELSE Head(ss) \o Flatten(Tail(ss))

SeqsUpTo(S, n) == UNION {[1..k -> S] : k \in 0..n}

Range(s) == {s[i] : i \in 1..Len(s)}

----------------------------------------------------------------------------
(* models.py: ChatMessage.  content is a str (kind "str", one text         *)
(* segment), a list of dict items (kind "list") or None (kind "none").     *)
(* An item is {type?, text?}: type "" is a missing type, hasText says      *)
(* whether item["text"] is a str.                                          *)

TextSeg(t) == [type |-> "text", hasText |-> TRUE, text |-> t]
ImageSeg   == [type |-> "image_url", hasText |-> FALSE, text |-> << >>]

StrContent(t)   == [kind |-> "str",  items |-> <<TextSeg(t)>>]
ListContent(ss) == [kind |-> "list", items |-> ss]
NoneContent     == [kind |-> "none", items |-> << >>]

ChatMessage(role, content, tool_call_id, tool_calls) ==
    [role |-> role, content |-> content, tool_call_id |-> tool_call_id,
     tool_calls |-> tool_calls]

ToolCall(id, name) == [id |-> id, name |-> name]

----------------------------------------------------------------------------
(* helpers.py                                                              *)

\* one dict item of a list content, as normalize_content_to_list keeps it;
\* << >> when the item is dropped
NormalizeItem(item) ==
    LET t == IF item.type # "" THEN item.type
             ELSE IF item.hasText THEN "text" ELSE ""
    IN  IF t = "text" /\ item.hasText THEN <<TextSeg(item.text)>>
        ELSE IF t # "" THEN <<[type |-> t, hasText |-> item.hasText, text |-> item.text]>>
        ELSE << >>

normalize_content_to_list(content) ==
    IF content.kind = "str" THEN content.items
    ELSE IF content.kind = "list"
         THEN Flatten([i \in 1..Len(content.items) |-> NormalizeItem(content.items[i])])
         ELSE << >>

IsTextSegment(seg) == seg.type = "text" /\ seg.hasText

segments_to_text(segments) ==
    Flatten([i \in 1..Len(segments) |->
                IF IsTextSegment(segments[i]) THEN segments[i].text ELSE << >>])

segments_to_warp_results(segments) ==
    Flatten([i \in 1..Len(segments) |->
                IF IsTextSegment(segments[i]) THEN <<segments[i].text>> ELSE << >>])

----------------------------------------------------------------------------
(* reorder.py: reorder_messages_for_anthropic                              *)

\* ExpandMessage with the multi-call assistant left unsplit
ExpandMessage_NoSplit(m) ==
    IF m.role = "user"
    THEN LET items == normalize_content_to_list(m.content)
         IN  IF m.content.kind = "list" /\ Len(items) > 1
             THEN [i \in 1..Len(items) |->
                     IF IsTextSegment(items[i])
                     THEN ChatMessage("user", StrContent(items[i].text), "", << >>)
                     ELSE ChatMessage("user", ListContent(<<items[i]>>), "", << >>)]
             ELSE <<m>>
    ELSE <<m>>

\* ExpandMessage that keeps the multi-call assistant next to its parts
ExpandMessage_KeepOriginal(m) ==
    IF m.role = "assistant" /\ Len(m.tool_calls) > 1
    THEN <<m>> \o [i \in 1..Len(m.tool_calls) |->
                     ChatMessage("assistant", NoneContent, "", <<m.tool_calls[i]>>)]
    ELSE ExpandMessage_NoSplit(m)

\* lines 13-31: what one message of the history becomes in `expanded`
ExpandMessage(m) ==
    IF m.role = "user"
    THEN LET items == normalize_content_to_list(m.content)
         IN  IF m.content.kind = "list" /\ Len(items) > 1
             THEN [i \in 1..Len(items) |->
                     IF IsTextSegment(items[i])
                     THEN ChatMessage("user", StrContent(items[i].text), "", << >>)
                     ELSE ChatMessage("user", ListContent(<<items[i]>>), "", << >>)]
             ELSE <<m>>
    ELSE IF m.role = "assistant" /\ Len(m.tool_calls) > 1
    THEN LET assistant_text == segments_to_text(normalize_content_to_list(m.content))
         IN  (IF assistant_text # << >>
              THEN <<ChatMessage("assistant", StrContent(assistant_text), "", << >>)>>
              ELSE << >>)
             \o [i \in 1..Len(m.tool_calls) |->
                   ChatMessage("assistant", NoneContent, "", <<m.tool_calls[i]>>)]
    ELSE <<m>>

Expand(h) == Flatten([i \in 1..Len(h) |-> ExpandMessage(h[i])])

\* lines 33-41: index in `expanded` of the anchor found walking from the end
\* (the first user message or tool message with an id), 0 when there is none
RECURSIVE LastInputIndex(_, _)
LastInputIndex(ms, i) ==
    IF i = 0 THEN 0
    ELSE IF ms[i].role = "tool" /\ ms[i].tool_call_id # "" THEN i
    ELSE IF ms[i].role = "user" THEN i
    ELSE LastInputIndex(ms, i - 1)

last_input_is_tool(expanded) ==
    LET k == LastInputIndex(expanded, Len(expanded))
    IN  k # 0 /\ expanded[k].role = "tool"

last_input_tool_id(expanded) ==
    LET k == LastInputIndex(expanded, Len(expanded))
    IN  IF k # 0 /\ expanded[k].role = "tool" THEN expanded[k].tool_call_id ELSE ""

\* lines 43-47: tool_results_by_id maps an id to the FIRST tool message with it
ToolResultIds(expanded) ==
    {expanded[i].tool_call_id :
        i \in {j \in 1..Len(expanded) :
                 expanded[j].role = "tool" /\ expanded[j].tool_call_id # ""}}

tool_results_by_id(expanded, id) ==
    LET k == CHOOSE j \in 1..Len(expanded) :
                 /\ expanded[j].role = "tool" /\ expanded[j].tool_call_id = id
                 /\ \A l \in 1..(j - 1) :
                       ~(expanded[l].role = "tool" /\ expanded[l].tool_call_id = id)
    IN  expanded[k]

\* lines 50-53 and 70-73: the non-empty string ids of a message's tool_calls
CallIds(m) ==
    Flatten([i \in 1..Len(m.tool_calls) |->
                IF m.tool_calls[i].id # "" THEN <<m.tool_calls[i].id>> ELSE << >>])

\* lines 48-53
assistant_tc_ids(expanded) ==
    UNION {Range(CallIds(expanded[i])) :
              i \in {j \in 1..Len(expanded) : expanded[j].role = "assistant"}}

\* lines 83-86: after an emitted assistant, pop and emit the pending results
RECURSIVE EmitResults(_, _, _)
EmitResults(expanded, ids, acc) ==
    IF ids = << >> THEN acc
    ELSE LET id == Head(ids)
         IN  IF id \in acc.pending
             THEN EmitResults(expanded, Tail(ids),
                     [acc EXCEPT !.result = Append(@, tool_results_by_id(expanded, id)),
                                 !.pending = @ \ {id}])
             ELSE EmitResults(expanded, Tail(ids), acc)

\* EmitStep that leaves every tool result where it stood in the input
EmitStep_Inline(expanded, m, acc) ==
    IF m.role = "assistant" /\ m.tool_calls # << >>
       /\ last_input_is_tool(expanded)
       /\ last_input_tool_id(expanded) # ""
       /\ last_input_tool_id(expanded) \in Range(CallIds(m))
    THEN IF acc.trailing = << >> THEN [acc EXCEPT !.trailing = <<m>>] ELSE acc
    ELSE [acc EXCEPT !.result = Append(@, m)]

\* lines 59-88: one iteration of the emission loop.  acc.trailing is << >>
\* (None) or <<m>>, acc.pending the keys still in tool_results_by_id.
EmitStep(expanded, m, acc) ==
    IF m.role = "tool"
    THEN IF m.tool_call_id = "" \/ m.tool_call_id \notin assistant_tc_ids(expanded)
         THEN [acc EXCEPT !.result = Append(@, m),
                          !.pending = IF m.tool_call_id # "" THEN @ \ {m.tool_call_id} ELSE @]
         ELSE acc
    ELSE IF m.role = "assistant" /\ m.tool_calls # << >>
    THEN IF /\ last_input_is_tool(expanded)
            /\ last_input_tool_id(expanded) # ""
            /\ last_input_tool_id(expanded) \in Range(CallIds(m))
         THEN IF acc.trailing = << >> THEN [acc EXCEPT !.trailing = <<m>>] ELSE acc
         ELSE EmitResults(expanded, CallIds(m), [acc EXCEPT !.result = Append(@, m)])
    ELSE [acc EXCEPT !.result = Append(@, m)]

RECURSIVE EmitLoop(_, _, _)
EmitLoop(expanded, i, acc) ==
    IF i > Len(expanded) THEN acc
    ELSE EmitLoop(expanded, i + 1, EmitStep(expanded, expanded[i], acc))

\* lines 90-94
AppendTrailing(expanded, acc) ==
    IF /\ last_input_is_tool(expanded)
       /\ last_input_tool_id(expanded) # ""
       /\ acc.trailing # << >>
    THEN LET id == last_input_tool_id(expanded)
             r1 == acc.result \o acc.trailing
         IN  IF id \in acc.pending
             THEN Append(r1, tool_results_by_id(expanded, id))
             ELSE r1
    ELSE acc.result

reorder_messages_for_anthropic(h) ==
    IF h = << >> THEN << >>
    ELSE LET expanded == Expand(h)
             acc0 == [result |-> << >>, trailing |-> << >>,
                      pending |-> ToolResultIds(expanded)]
         IN  AppendTrailing(expanded, EmitLoop(expanded, 1, acc0))

----------------------------------------------------------------------------
(* The messages histories are built from: every role, str / list / None    *)
(* content, a multi-segment user message, a multi-call assistant, two tool *)
(* results sharing an id, a tool message without id.                       *)

Msgs ==
    { ChatMessage("system",    StrContent(<<"s">>), "", << >>),
      ChatMessage("user",      StrContent(<<"q">>), "", << >>),
      ChatMessage("user",      ListContent(<<TextSeg(<<"p">>), TextSeg(<<"r">>)>>), "", << >>),
      ChatMessage("user",      ListContent(<<TextSeg(<<"p">>), ImageSeg>>), "", << >>),
      ChatMessage("assistant", StrContent(<<"t">>), "", << >>),
      ChatMessage("assistant", NoneContent, "", <<ToolCall("a", "f")>>),
      ChatMessage("assistant", StrContent(<<"t">>), "", <<ToolCall("b", "g")>>),
      ChatMessage("assistant", StrContent(<<"t">>), "", <<ToolCall("a", "f"), ToolCall("b", "g")>>),
      ChatMessage("tool",      StrContent(<<"x">>), "a", << >>),
      ChatMessage("tool",      StrContent(<<"y">>), "a", << >>),
      ChatMessage("tool",      StrContent(<<"x">>), "b", << >>),
      ChatMessage("tool",      StrContent(<<"x">>), "", << >>) }

\* the messages of the histories in which several assistants carry the
\* tool_call id a and several tool results answer it
SharedIdMsgs ==
    { ChatMessage("user",      StrContent(<<"q">>), "", << >>),
      ChatMessage("assistant", NoneContent, "", <<ToolCall("a", "f")>>),
      ChatMessage("tool",      StrContent(<<"x">>), "a", << >>),
      ChatMessage("tool",      StrContent(<<"y">>), "a", << >>) }

----------------------------------------------------------------------------
(* SpecReorder                                                             *)

\* what chat_completions answers: the HTTP status and, for a completion,
\* choices[0].finish_reason and choices[0].message
Reply(status, kind) ==
    [status |-> status, kind |-> kind, finish_reason |-> "", content |-> << >>,
     tool_calls |-> << >>]

NoReply == Reply(0, "")

ChatIdle ==
    /\ State = [conversation_id |-> "", baseline_task_id |-> "",
                tool_call_id |-> "", tool_message_id |-> ""]
    /\ req = [messages |-> << >>, stream |-> FALSE]
    /\ packet = << >>
    /\ pc = "off"
    /\ caller = ""
    /\ rounds = 0
    /\ health = "none"
    /\ attempts = 0
    /\ posts = 0
    /\ refreshes = << >>
    /\ bridge_resp = << >>
    /\ reply = NoReply

StreamIdle ==
    /\ spc = "off"
    /\ nlines = 0
    /\ upstream = << >>
    /\ current = << >>
    /\ tool_calls_emitted = FALSE
    /\ out = << >>
    /\ statuses = << >>

ReorderIdle ==
    /\ history = << >>
    /\ result = << >>
    /\ rpc = "off"

LoopIdle ==
    /\ loop = 0
    /\ handlers = << >>
    /\ warmups = 0

\* a JWT: its name and the minutes left until its exp claim; NoExp is a
\* token whose payload cannot be decoded or carries no exp
NoExp == -1000

Jwt(name, left) == [name |-> name, left |-> left]

NoToken == Jwt("", NoExp)        \* WARP_JWT is not set

NoEnv == [WARP_JWT |-> NoToken, WARP_REFRESH_TOKEN |-> ""]

AuthIdle ==
    /\ environ = NoEnv
    /\ dotenv = NoEnv
    /\ calls = << >>

SchemaIdle ==
    /\ schema = << >>
    /\ sanitized = << >>
    /\ zpc = "off"

\* no call of encode_server_message_data is in progress
NoEnc ==
    [pc |-> "off", uuid |-> << >>, seconds |-> << >>, nanos |-> << >>,
     field |-> "", vv |-> 0, out |-> << >>, ts |-> << >>]

\* no StreamSession exists
NoSession == [pc |-> "off"]

CodecIdle ==
    /\ smd = << >>
    /\ decoded = << >>
    /\ encoded = << >>
    /\ cpc = "off"
    /\ enc = NoEnc
    /\ session = NoSession

InitReorder ==
    /\ history \in SeqsUpTo(Msgs, MaxHist) \cup [1..MaxSharedHist -> SharedIdMsgs]
    /\ result = << >>
    /\ rpc = "input"
    /\ ChatIdle
    /\ StreamIdle
    /\ LoopIdle
    /\ AuthIdle
    /\ SchemaIdle
    /\ CodecIdle

Reorder ==
    /\ rpc = "input"
    /\ result' = reorder_messages_for_anthropic(history)
    /\ rpc' = "done"
    /\ UNCHANGED <<history, chatVars, streamVars, loopVars, authVars, schemaVars, codecVars>>

\* the pass is given its own output
ReorderAgain ==
    /\ rpc = "done"
    /\ history' = result
    /\ result' = reorder_messages_for_anthropic(result)
    /\ rpc' = "again"
    /\ UNCHANGED <<chatVars, streamVars, loopVars, authVars, schemaVars, codecVars>>

NextReorder ==
    \/ Reorder
    \/ ReorderAgain

SpecReorder == InitReorder /\ [][NextReorder]_vars

----------------------------------------------------------------------------
(* Claims about the reorder pass (checked under SpecReorder)               *)

Expanded == Expand(history)

IsMatchedResult(m) ==
    m.role = "tool" /\ m.tool_call_id # "" /\ m.tool_call_id \in assistant_tc_ids(Expanded)

\* C2: in the output of reorder_messages_for_anthropic every assistant
\* message carries at most one tool_call, for every input history.
C2_AtMostOneToolCall ==
    rpc = "done" =>
        \A i \in 1..Len(result) :
            result[i].role = "assistant" => Len(result[i].tool_calls) <= 1

\* a multi-call assistant went in and came out as single-call assistants
C2_Witness ==
    /\ rpc = "done"
    /\ \E i \in 1..Len(history) :
          history[i].role = "assistant" /\ Len(history[i].tool_calls) > 1
    /\ \E i \in 1..Len(result) :
          result[i].role = "assistant" /\ Len(result[i].tool_calls) = 1

\* C3: every tool result of the output whose tool_call_id matches an
\* assistant tool_call, and which is not the last input of the turn, sits at
\* the index immediately after an assistant message carrying that tool_call,
\* wherever it stood in the input.
C3_ResultFollowsCall ==
    rpc = "done" =>
        \A i \in 1..Len(result) :
            (/\ IsMatchedResult(result[i])
             /\ ~(last_input_is_tool(Expanded) /\ i = Len(result)))
            => /\ i > 1
               /\ result[i - 1].role = "assistant"
               /\ result[i].tool_call_id \in Range(CallIds(result[i - 1]))

\* a matched result that stood BEFORE its assistant in the input, and is not
\* the last input, stands right after it in the output
C3_Witness ==
    /\ rpc = "done"
    /\ Len(history) = 3
    /\ history[1].role = "tool" /\ history[1].tool_call_id = "a"
    /\ history[2].role = "assistant" /\ Range(CallIds(history[2])) = {"a"}
    /\ history[3].role = "user"
    /\ result[1] = history[2]
    /\ result[2] = history[1]

\* the anchor of the turn is a tool result whose id an assistant produced
AnchorIsMatchedTool ==
    /\ last_input_is_tool(Expanded)
    /\ last_input_tool_id(Expanded) \in assistant_tc_ids(Expanded)

AnchorMessage == Expanded[LastInputIndex(Expanded, Len(Expanded))]

\* C4: when the last input of the turn is a tool result whose id was
\* produced by an assistant tool_call, the output ends with exactly
\* [that assistant message, that tool result]: the assistant penultimate,
\* the anchor tool result last.
C4_AnchorPairLast ==
    (rpc = "done" /\ AnchorIsMatchedTool) =>
        /\ Len(result) >= 2
        /\ result[Len(result)] = AnchorMessage
        /\ result[Len(result) - 1].role = "assistant"
        /\ AnchorMessage.tool_call_id \in Range(CallIds(result[Len(result) - 1]))

----------------------------------------------------------------------------
(* state.py, packets.py                                                    *)

Uuids   == {"u1", "u2"}       \* values str(uuid.uuid4()) may return
ConvIds == {"c1", "c2"}       \* conversation ids the bridge may report
TaskIds == {"t1"}             \* task ids the bridge may report
FreshUuid == "uuid4"          \* an id minted per message and not kept anywhere

\* ensure_tool_ids that mints new ids on every call
ensure_tool_ids_Regenerate(S, u1, u2) ==
    [S EXCEPT !.tool_call_id = u1, !.tool_message_id = u2]

\* state.py lines 19-23; u1, u2 are the values the two uuid4() calls return
ensure_tool_ids(S, u1, u2) ==
    [S EXCEPT !.tool_call_id = IF @ = "" THEN u1 ELSE @,
              !.tool_message_id = IF @ = "" THEN u2 ELSE @]

\* one entry of task_context.tasks[0].messages[]
WarpMessage(kind, id, task_id, tool_call_id, text, name, results) ==
    [kind |-> kind, id |-> id, task_id |-> task_id, tool_call_id |-> tool_call_id,
     text |-> text, name |-> name, results |-> results]

ServerPayload == <<"IgIQAQ==">>

\* packets.py lines 43-50
Preamble(S, task_id, u1, u2) ==
    WarpMessage("server_tool_call",
                IF S.tool_message_id # "" THEN S.tool_message_id ELSE u1,
                task_id,
                IF S.tool_call_id # "" THEN S.tool_call_id ELSE u2,
                ServerPayload, "", << >>)

\* packets.py lines 68-101: the task messages one history message maps to
MapMessage(m, task_id) ==
    IF m.role = "user"
    THEN <<WarpMessage("user_query", FreshUuid, task_id, "",
                       segments_to_text(normalize_content_to_list(m.content)), "", << >>)>>
    ELSE IF m.role = "assistant"
    THEN LET assistant_text == segments_to_text(normalize_content_to_list(m.content))
         IN  (IF assistant_text # << >>
              THEN <<WarpMessage("agent_output", FreshUuid, task_id, "", assistant_text, "", << >>)>>
              ELSE << >>)
             \o [i \in 1..Len(m.tool_calls) |->
                   WarpMessage("tool_call", FreshUuid, task_id,
                               IF m.tool_calls[i].id # "" THEN m.tool_calls[i].id ELSE FreshUuid,
                               << >>, m.tool_calls[i].name, << >>)]
    ELSE IF m.role = "tool" /\ m.tool_call_id # ""
    THEN <<WarpMessage("tool_call_result", FreshUuid, task_id, m.tool_call_id, << >>, "",
                       segments_to_warp_results(normalize_content_to_list(m.content)))>>
    ELSE << >>

\* map_history_to_warp_messages that appends the preamble after the history
map_history_PreambleLast(h, task_id, S, u1, u2) ==
    LET last_input_index == LastInputIndex(h, Len(h))
    IN  Flatten([i \in 1..Len(h) |->
                    IF last_input_index # 0 /\ i = last_input_index
                    THEN << >> ELSE MapMessage(h[i], task_id)])
        \o <<Preamble(S, task_id, u1, u2)>>

\* map_history_to_warp_messages without the `continue` of lines 66-67
map_history_NoSkip(h, task_id, S, u1, u2) ==
    <<Preamble(S, task_id, u1, u2)>>
    \o Flatten([i \in 1..Len(h) |-> MapMessage(h[i], task_id)])

\* packets.py lines 39-102.  S is STATE after ensure_tool_ids() (line 40).
map_history_to_warp_messages(h, task_id, S, u1, u2) ==
    LET last_input_index == LastInputIndex(h, Len(h))
    IN  <<Preamble(S, task_id, u1, u2)>>
        \o Flatten([i \in 1..Len(h) |->
                      IF last_input_index # 0 /\ i = last_input_index
                      THEN << >> ELSE MapMessage(h[i], task_id)])

Alert == <<"<ALERT>", "</ALERT>">>

\* one entry of input.user_inputs.inputs[]
UserInput(kind, query, attachment, tool_call_id, results) ==
    [kind |-> kind, query |-> query, attachment |-> attachment,
     tool_call_id |-> tool_call_id, results |-> results]

\* attach_user_and_tools_to_inputs that lets a tool result fall through
attach_SkipToolResult(inputs, h, system_prompt_text) ==
    IF h = << >> THEN [ok |-> FALSE, inputs |-> inputs]
    ELSE LET last == h[Len(h)]
         IN  IF last.role = "user"
             THEN [ok |-> TRUE,
                   inputs |-> Append(inputs,
                       UserInput("user_query",
                                 segments_to_text(normalize_content_to_list(last.content)),
                                 IF system_prompt_text # << >>
                                 THEN Alert \o system_prompt_text ELSE << >>,
                                 "", << >>))]
             ELSE IF last.role = "tool" /\ last.tool_call_id # ""
             THEN [ok |-> TRUE, inputs |-> inputs]
             ELSE [ok |-> FALSE, inputs |-> inputs]

\* packets.py lines 105-137.  ok = FALSE is the AssertionError; attachment
\* << >> is a user_query without referenced_attachments.
attach_user_and_tools_to_inputs(inputs, h, system_prompt_text) ==
    IF h = << >> THEN [ok |-> FALSE, inputs |-> inputs]
    ELSE LET last == h[Len(h)]
         IN  IF last.role = "user"
             THEN [ok |-> TRUE,
                   inputs |-> Append(inputs,
                       UserInput("user_query",
                                 segments_to_text(normalize_content_to_list(last.content)),
                                 IF system_prompt_text # << >>
                                 THEN Alert \o system_prompt_text ELSE << >>,
                                 "", << >>))]
             ELSE IF last.role = "tool" /\ last.tool_call_id # ""
             THEN [ok |-> TRUE,
                   inputs |-> Append(inputs,
                       UserInput("tool_call_result", << >>, << >>, last.tool_call_id,
                                 segments_to_warp_results(normalize_content_to_list(last.content))))]
             ELSE [ok |-> FALSE, inputs |-> inputs]

\* router.py lines 66-77: texts of the system messages that are not blank,
\* joined with "\n\n"; << >> is None
IsBlank(text) == \A i \in 1..Len(text) : text[i] \in {" ", "\n"}

RECURSIVE Join(_)
Join(chunks) ==
    IF chunks = << >> THEN << >>
    ELSE IF Len(chunks) = 1 THEN chunks[1]
    ELSE chunks[1] \o <<"\n\n">> \o Join(Tail(chunks))

\* SystemPromptText that does not test _txt.strip()
SystemPromptText_KeepBlank(h) ==
    Join(Flatten([i \in 1..Len(h) |->
            LET txt == segments_to_text(normalize_content_to_list(h[i].content))
            IN  IF h[i].role = "system" THEN <<txt>> ELSE << >>]))

SystemPromptText(h) ==
    Join(Flatten([i \in 1..Len(h) |->
            LET txt == segments_to_text(normalize_content_to_list(h[i].content))
            IN  IF h[i].role = "system" /\ ~IsBlank(txt) THEN <<txt>> ELSE << >>]))

\* router.py lines 79-97: the packet, and whether attach returned normally.
\* u is the uuid4() of line 79, u1, u2 those of the preamble's fallbacks.
BuildPacket(S, messages, u, u1, u2) ==
    LET h == reorder_messages_for_anthropic(messages)
        task_id == IF S.baseline_task_id # "" THEN S.baseline_task_id ELSE u
        att == attach_user_and_tools_to_inputs(<< >>, h, SystemPromptText(h))
    IN  [ok |-> att.ok,
         packet |->
            [task_context |->
                [tasks |-> <<[id |-> task_id,
                              messages |-> map_history_to_warp_messages(h, task_id, S, u1, u2)]>>,
                 active_task_id |-> task_id],
             inputs |-> att.inputs,
             conversation_id |-> S.conversation_id]]

----------------------------------------------------------------------------
(* The events of the bridge, as the dicts of parsed_events[].parsed_data   *)

\* a message of an action: agent_output{text} or tool_call{tool_call_id,
\* call_mcp_tool{name}}; name "" is a tool_call that is not call_mcp_tool
AgentOutput(t) == [kind |-> "agent_output", text |-> t, tool_call_id |-> "", name |-> ""]
ToolCallMessage(id, name) == [kind |-> "tool_call", text |-> << >>, tool_call_id |-> id, name |-> name]

Action(kind, messages) == [kind |-> kind, messages |-> messages]

\* parsed_data of one event: init, client_actions or finished
Event(kind, conversation_id, task_id, actions) ==
    [kind |-> kind, conversation_id |-> conversation_id, task_id |-> task_id,
     actions |-> actions]

\* the payload of a data: line; valid = FALSE is one json.loads rejects
Payload(valid, event) == [valid |-> valid, event |-> event]

InitEvent == Event("init", "c2", "t1", << >>)
TextEvent ==
    Event("client_actions", "", "",
          <<Action("append_to_message_content", <<AgentOutput(<<"h">>)>>),
            Action("add_messages_to_task", <<AgentOutput(<<"i">>), AgentOutput(<< >>)>>)>>)
ToolEvent ==
    Event("client_actions", "", "",
          <<Action("add_messages_to_task",
                   <<ToolCallMessage("k", "f"), AgentOutput(<<"j">>), ToolCallMessage("", "")>>)>>)
UpdateEvent ==
    Event("client_actions", "", "",
          <<Action("update_task_message", <<AgentOutput(<<"u">>)>>)>>)
FinishedEvent == Event("finished", "", "", << >>)

\* a payload that is valid JSON but not an object: a list, a string, a number
NotAnObject == Event("not_an_object", "", "", << >>)

\* a second event with named tool_calls, one of them without tool_call_id
ToolEvent2 ==
    Event("client_actions", "", "",
          <<Action("add_messages_to_task",
                   <<ToolCallMessage("m", "g"), ToolCallMessage("", "f")>>)>>)
\* a tool_call carried by append_to_message_content
AppendToolEvent ==
    Event("client_actions", "", "",
          <<Action("append_to_message_content", <<ToolCallMessage("n", "f")>>)>>)

----------------------------------------------------------------------------
(* config.py, bridge.py, router.py: the compat process                     *)

WARMUP_INIT_RETRIES == 10
WARMUP_REQUEST_RETRIES == 3

\* messages[] of the chat requests
ChatMsgs ==
    { ChatMessage("system",    StrContent(<<"s">>), "", << >>),
      ChatMessage("user",      StrContent(<<"q">>), "", << >>),
      ChatMessage("user",      ListContent(<<TextSeg(<<"p">>), TextSeg(<<"r">>)>>), "", << >>),
      ChatMessage("assistant", StrContent(<<"t">>), "", << >>),
      ChatMessage("assistant", NoneContent, "", <<ToolCall("a", "f")>>),
      ChatMessage("tool",      StrContent(<<"x">>), "a", << >>),
      ChatMessage("tool",      StrContent(<<"x">>), "", << >>) }

\* messages[] that begin with two system messages (texts "s", "t" and the
\* blank " ") and end with the user's query or with a tool result
SystemMsgs ==
    { ChatMessage("system", StrContent(<<"s">>), "", << >>),
      ChatMessage("system", StrContent(<<"t">>), "", << >>),
      ChatMessage("system", StrContent(<<" ">>), "", << >>) }

PromptChats ==
    {<<a, b, c>> : a \in SystemMsgs, b \in SystemMsgs,
                   c \in {ChatMessage("user", StrContent(<<"q">>), "", << >>),
                          ChatMessage("tool", StrContent(<<"x">>), "a", << >>)}}

\* parsed_events of the bridge's answers
ParsedEventLists ==
    { << >>,
      <<InitEvent, TextEvent, FinishedEvent>>,
      <<ToolEvent, FinishedEvent>>,
      <<TextEvent, ToolEvent2, ToolEvent>>,
      <<AppendToolEvent, FinishedEvent>> }

\* api_client.py lines 375-396: the texts one action adds to complete_response
ResponseTextsOfAction(action) ==
    IF action.kind \in {"append_to_message_content", "add_messages_to_task"}
    THEN Flatten([i \in 1..Len(action.messages) |->
                    IF action.messages[i].kind = "agent_output"
                    THEN action.messages[i].text ELSE << >>])
    ELSE << >>

\* api_client.py line 401: full_response
full_response(parsed_events) ==
    Flatten([i \in 1..Len(parsed_events) |->
        Flatten([j \in 1..Len(parsed_events[i].actions) |->
                    ResponseTextsOfAction(parsed_events[i].actions[j])])])

\* api_client.py lines 304-307: what the call returns when the upstream
\* answered with an error status
UpstreamErrorReply ==
    [conversation_id |-> "", task_id |-> "", response |-> <<"Warp API Error">>,
     parsed_events |-> << >>]

\* the JSON body of a 200 answer of POST /api/warp/send_stream, made of what
\* send_protobuf_to_warp_api_parsed returns (api_client.py line 413); "" is
\* a missing or null field
BridgeReplies ==
    {[conversation_id |-> c, task_id |-> t, response |-> full_response(evs),
      parsed_events |-> evs] :
        c \in ConvIds \cup {""}, t \in TaskIds \cup {""}, evs \in ParsedEventLists}
    \cup {UpstreamErrorReply}

\* router.py lines 169-182: one message of add_messages_to_task
ExtractMessage(message, tool_calls) ==
    IF message.kind = "tool_call" /\ message.name # ""
    THEN Append(tool_calls,
                ToolCall(IF message.tool_call_id # "" THEN message.tool_call_id
                         ELSE FreshUuid, message.name))
    ELSE tool_calls

RECURSIVE ExtractMessages(_, _)
ExtractMessages(messages, tool_calls) ==
    IF messages = << >> THEN tool_calls
    ELSE ExtractMessages(Tail(messages), ExtractMessage(Head(messages), tool_calls))

\* ExtractAction that looks into every kind of action
ExtractAction_AnyAction(action, tool_calls) ==
    ExtractMessages(action.messages, tool_calls)

\* router.py lines 165-169: one action
ExtractAction(action, tool_calls) ==
    IF action.kind = "add_messages_to_task"
    THEN ExtractMessages(action.messages, tool_calls)
    ELSE tool_calls

RECURSIVE ExtractActions(_, _)
ExtractActions(actions, tool_calls) ==
    IF actions = << >> THEN tool_calls
    ELSE ExtractActions(Tail(actions), ExtractAction(Head(actions), tool_calls))

\* router.py lines 158-184
RECURSIVE ExtractEvents(_, _)
ExtractEvents(parsed_events, tool_calls) ==
    IF parsed_events = << >> THEN tool_calls
    ELSE ExtractEvents(Tail(parsed_events),
                       ExtractActions(Head(parsed_events).actions, tool_calls))

\* router.py lines 186-201: the completion returned with status 200
Completion(resp) ==
    LET tool_calls == ExtractEvents(resp.parsed_events, << >>)
    IN  IF tool_calls # << >>
        THEN [Reply(200, "completion") EXCEPT !.finish_reason = "tool_calls",
                                              !.tool_calls = tool_calls]
        ELSE [Reply(200, "completion") EXCEPT !.finish_reason = "stop",
                                              !.content = resp.response]

\* bridge.py lines 102-105 and router.py lines 151-154 with the
\* `or STATE.conversation_id` dropped
UpdateState_Overwrite(S, resp) ==
    [S EXCEPT !.conversation_id = resp.conversation_id,
              !.baseline_task_id = IF resp.task_id # "" THEN resp.task_id ELSE @]

\* bridge.py lines 102-105 and router.py lines 151-154
UpdateState(S, resp) ==
    [S EXCEPT !.conversation_id = IF resp.conversation_id # "" THEN resp.conversation_id ELSE @,
              !.baseline_task_id = IF resp.task_id # "" THEN resp.task_id ELSE @]

\* initialize_once returned or raised: the startup hook is over, or the
\* handler goes on (router.py lines 40-43 swallow the exception)
AfterInitialize == IF caller = "startup" THEN "idle" ELSE "build"

\* bridge.py lines 53-59
InitializeOnce ==
    /\ pc = "init"
    /\ IF State.conversation_id # ""
       THEN /\ pc' = AfterInitialize
            /\ UNCHANGED State
       ELSE /\ \E u1, u2, u3 \in Uuids :
                  State' = [ensure_tool_ids(State, u1, u2) EXCEPT
                               !.baseline_task_id = IF @ = "" THEN u3 ELSE @]
            /\ pc' = "health"
    /\ rounds' = 0
    /\ attempts' = 0
    /\ health' = "none"
    /\ UNCHANGED <<req, packet, caller, posts, refreshes, bridge_resp, reply,
                   reorderVars, loopVars, authVars, schemaVars, codecVars, streamVars>>

\* HealthRound whose loop has no else: the warmup follows the last round
\* whatever it found
HealthRound_NoElse ==
    /\ pc = "health"
    /\ \E ok \in BOOLEAN :
          IF ok
          THEN pc' = "warmup" /\ rounds' = 0 /\ health' = "ok"
          ELSE IF rounds + 1 >= WARMUP_INIT_RETRIES
          THEN pc' = "warmup" /\ rounds' = 0 /\ health' = "down"
          ELSE pc' = "health" /\ rounds' = rounds + 1 /\ health' = "down"
    /\ UNCHANGED <<State, req, packet, caller, attempts, posts, refreshes,
                   bridge_resp, reply, reorderVars, loopVars, authVars, schemaVars, codecVars, streamVars>>

\* bridge.py lines 63-83: one round over the health urls
HealthRound ==
    /\ pc = "health"
    /\ \E ok \in BOOLEAN :
          IF ok
          THEN pc' = "warmup" /\ rounds' = 0 /\ health' = "ok"
          ELSE IF rounds + 1 = WARMUP_INIT_RETRIES
          THEN pc' = AfterInitialize /\ rounds' = 0 /\ health' = "none"  \* RuntimeError
          ELSE pc' = "health" /\ rounds' = rounds + 1 /\ health' = "down"
    /\ UNCHANGED <<State, req, packet, caller, attempts, posts, refreshes,
                   bridge_resp, reply, reorderVars, loopVars, authVars, schemaVars, codecVars, streamVars>>

\* bridge.py lines 85-105: one warmup attempt (bridge_send_stream) and, when
\* it succeeded, the update of STATE
WarmupAttempt ==
    /\ pc = "warmup"
    /\ \/ /\ IF attempts + 1 = WARMUP_REQUEST_RETRIES
             THEN pc' = AfterInitialize /\ attempts' = 0 /\ health' = "none"  \* the last attempt re-raises
             ELSE pc' = "warmup" /\ attempts' = attempts + 1 /\ health' = health
          /\ UNCHANGED State
       \/ \E resp \in BridgeReplies :
             /\ State' = UpdateState(State, resp)
             /\ pc' = AfterInitialize
             /\ attempts' = 0
             /\ health' = "none"
    /\ UNCHANGED <<req, packet, caller, rounds, posts, refreshes, bridge_resp,
                   reply, reorderVars, loopVars, authVars, schemaVars, codecVars, streamVars>>

\* router.py lines 38-39: a request arrives
Receive ==
    /\ pc = "idle"
    /\ \E ms \in SeqsUpTo(ChatMsgs, MaxChatHist) \cup PromptChats, st \in BOOLEAN :
          req' = [messages |-> ms, stream |-> st]
    /\ caller' = "chat"
    /\ pc' = "init"
    /\ UNCHANGED <<State, packet, rounds, health, attempts, posts, refreshes,
                   bridge_resp, reply, reorderVars, loopVars, authVars, schemaVars, codecVars, streamVars>>

\* the handler has answered: its locals are gone, STATE stays
Return ==
    /\ pc = "done"
    /\ req' = [messages |-> << >>, stream |-> FALSE]
    /\ packet' = << >>
    /\ posts' = 0
    /\ refreshes' = << >>
    /\ statuses' = << >>
    /\ bridge_resp' = << >>
    /\ reply' = NoReply
    /\ pc' = "idle"
    /\ UNCHANGED <<State, caller, rounds, health, attempts, spc, nlines, upstream,
                   current, tool_calls_emitted, out,
                   reorderVars, loopVars, authVars, schemaVars, codecVars>>

\* router.py lines 45-46
RejectEmpty ==
    /\ pc = "build"
    /\ req.messages = << >>
    /\ reply' = Reply(400, "error")
    /\ pc' = "done"
    /\ UNCHANGED <<State, req, packet, caller, rounds, health, attempts, posts,
                   refreshes, bridge_resp, reorderVars, loopVars, authVars, schemaVars, codecVars, streamVars>>

\* ChatBuildPacket that goes on after the AssertionError
ChatBuildPacket_SendAnyway ==
    /\ pc = "build"
    /\ req.messages # << >>
    /\ \E u, u1, u2 \in Uuids :
          LET S == ensure_tool_ids(State, u1, u2)
              b == BuildPacket(S, req.messages, u, u1, u2)
          IN  /\ State' = S
              /\ packet' = b.packet
              /\ pc' = "built"
              /\ UNCHANGED reply
    /\ UNCHANGED <<req, caller, rounds, health, attempts, posts, refreshes, bridge_resp,
                   reorderVars, loopVars, authVars, schemaVars, codecVars, streamVars>>

\* router.py lines 55-97; map_history_to_warp_messages calls
\* ensure_tool_ids().  An AssertionError of attach_user_and_tools_to_inputs
\* leaves the handler: the client gets a 500 and the packet is never sent.
ChatBuildPacket ==
    /\ pc = "build"
    /\ req.messages # << >>
    /\ \E u, u1, u2 \in Uuids :
          LET S == ensure_tool_ids(State, u1, u2)
              b == BuildPacket(S, req.messages, u, u1, u2)
          IN  /\ State' = S
              /\ packet' = b.packet
              /\ IF b.ok
                 THEN pc' = "built" /\ UNCHANGED reply
                 ELSE pc' = "done" /\ reply' = Reply(500, "error")
    /\ UNCHANGED <<req, caller, rounds, health, attempts, posts, refreshes, bridge_resp,
                   reorderVars, loopVars, authVars, schemaVars, codecVars, streamVars>>

\* router.py lines 122-126: the body is produced later by stream_openai_sse
ReturnStreamingResponse ==
    /\ pc = "built"
    /\ req.stream
    /\ reply' = Reply(200, "stream")
    /\ pc' = "done"
    /\ UNCHANGED <<State, req, packet, caller, rounds, health, attempts, posts,
                   refreshes, bridge_resp, reorderVars, loopVars, authVars, schemaVars, codecVars, streamVars>>

BridgeStatuses == {200, 429, 500}

\* router.py lines 128-148: _post_once and what follows its answer.  Any
\* exception inside the try, the HTTPException of line 145 included, is
\* caught at line 147 and becomes a 502.
PostOnce ==
    /\ \/ pc = "built" /\ ~req.stream
       \/ pc = "retry"
    /\ posts' = posts + 1
    /\ \/ /\ reply' = Reply(502, "error")      \* no answer
          /\ pc' = "done"
          /\ UNCHANGED <<statuses, bridge_resp>>
       \/ \E status \in BridgeStatuses :
             /\ statuses' = Append(statuses, status)
             /\ IF status = 429 /\ pc = "built"
                THEN pc' = "refresh" /\ UNCHANGED <<reply, bridge_resp>>
                ELSE IF status # 200
                THEN /\ reply' = Reply(502, "error")
                     /\ pc' = "done"
                     /\ UNCHANGED bridge_resp
                ELSE \/ \E resp \in BridgeReplies :
                           /\ bridge_resp' = resp
                           /\ pc' = "respond"
                           /\ UNCHANGED reply
                     \/ /\ reply' = Reply(502, "error")  \* resp.json() raises
                        /\ pc' = "done"
                        /\ UNCHANGED bridge_resp
    /\ UNCHANGED <<State, req, packet, caller, rounds, health, attempts, refreshes,
                   spc, nlines, upstream, current, tool_calls_emitted, out,
                   reorderVars, loopVars, authVars, schemaVars, codecVars>>

\* what POST /api/auth/refresh may do: answer, or raise (timeout,
\* connection refused)
RefreshOutcomes == {"answered", "raised"}

\* AuthRefresh whose exception leaves the handler
AuthRefresh_GiveUp ==
    /\ pc = "refresh"
    /\ \E o \in RefreshOutcomes :
          /\ refreshes' = Append(refreshes, o)
          /\ IF o = "raised"
             THEN pc' = "done" /\ reply' = Reply(502, "error")
             ELSE pc' = "retry" /\ UNCHANGED reply
    /\ UNCHANGED <<State, req, packet, caller, rounds, health, attempts, posts,
                   bridge_resp, reorderVars, loopVars, authVars, schemaVars, codecVars,
                   streamVars>>

\* router.py lines 138-142: best effort, its outcome is only logged
AuthRefresh ==
    /\ pc = "refresh"
    /\ \E o \in RefreshOutcomes : refreshes' = Append(refreshes, o)
    /\ pc' = "retry"
    /\ UNCHANGED <<State, req, packet, caller, rounds, health, attempts, posts,
                   bridge_resp, reply, reorderVars, loopVars, authVars, schemaVars, codecVars, streamVars>>

\* router.py lines 150-201
Respond ==
    /\ pc = "respond"
    /\ State' = UpdateState(State, bridge_resp)
    /\ reply' = Completion(bridge_resp)
    /\ pc' = "done"
    /\ UNCHANGED <<req, packet, caller, rounds, health, attempts, posts, refreshes,
                   bridge_resp, reorderVars, loopVars, authVars, schemaVars, codecVars, streamVars>>

\* app.py lines 20-49: the startup hook runs initialize_once before the
\* first request is served
Init ==
    /\ State = [conversation_id |-> "", baseline_task_id |-> "",
                tool_call_id |-> "", tool_message_id |-> ""]
    /\ req = [messages |-> << >>, stream |-> FALSE]
    /\ packet = << >>
    /\ pc = "init"
    /\ caller = "startup"
    /\ rounds = 0
    /\ health = "none"
    /\ attempts = 0
    /\ posts = 0
    /\ refreshes = << >>
    /\ bridge_resp = << >>
    /\ reply = NoReply
    /\ ReorderIdle
    /\ StreamIdle
    /\ LoopIdle
    /\ AuthIdle
    /\ SchemaIdle
    /\ CodecIdle

\* chat_completions is a coroutine that never awaits before it returns (its
\* HTTP calls are the blocking requests.post / requests.get), so the event
\* loop runs one handler at a time, from Receive to Return; only the
\* generator stream_openai_sse, which does not touch STATE, is suspended
\* and resumed between handlers (SpecStream).
Next ==
    \/ InitializeOnce
    \/ HealthRound
    \/ WarmupAttempt
    \/ Receive
    \/ RejectEmpty
    \/ ChatBuildPacket
    \/ ReturnStreamingResponse
    \/ PostOnce
    \/ AuthRefresh
    \/ Respond
    \/ Return

Spec == Init /\ [][Next]_vars

----------------------------------------------------------------------------
(* sse_transform.py: stream_openai_sse                                     *)

Payloads ==
    {Payload(TRUE, e) : e \in {InitEvent, TextEvent, ToolEvent, UpdateEvent, FinishedEvent}}
    \cup {Payload(FALSE, FinishedEvent), Payload(TRUE, NotAnObject)}

\* the lines the bridge may send: "data: <payload>", "data: [DONE]", "data:"
\* and the blank line
Lines ==
    {[kind |-> "data", payload |-> p] : p \in Payloads}
    \cup {[kind |-> k, payload |-> Payload(FALSE, FinishedEvent)] : k \in {"done", "empty", "blank"}}

\* one item the generator yields; error is the top-level "error" member of
\* the chunk ("" when the chunk has none)
Chunk(kind, text, tool_call_id, name, finish_reason) ==
    [kind |-> kind, text |-> text, tool_call_id |-> tool_call_id, name |-> name,
     finish_reason |-> finish_reason, error |-> ""]

RoleChunk        == Chunk("role", << >>, "", "", "")
ContentChunk(t)  == Chunk("content", t, "", "", "")
ToolCallsChunk(id, name) == Chunk("tool_calls", << >>, id, name, "")
FinishChunk(r)   == Chunk("finish", << >>, "", "", r)
ErrorChunk       == [Chunk("finish", << >>, "", "", "error") EXCEPT !.error = "str(e)"]
Done             == Chunk("DONE", << >>, "", "", "")

\* lines 259-308: one message of add_messages_to_task.  acc = [chunks, emitted]
ProcessTaskMessage(message, acc) ==
    IF message.kind = "tool_call" /\ message.name # ""
    THEN [chunks |-> Append(acc.chunks,
                        ToolCallsChunk(IF message.tool_call_id # "" THEN message.tool_call_id
                                       ELSE FreshUuid, message.name)),
          emitted |-> TRUE]
    ELSE IF message.kind = "agent_output" /\ message.text # << >>
    THEN [acc EXCEPT !.chunks = Append(@, ContentChunk(message.text))]
    ELSE acc

RECURSIVE ProcessTaskMessages(_, _)
ProcessTaskMessages(messages, acc) ==
    IF messages = << >> THEN acc
    ELSE ProcessTaskMessages(Tail(messages), ProcessTaskMessage(Head(messages), acc))

\* lines 235-308: one action
ProcessAction(action, acc) ==
    IF action.kind = "append_to_message_content"
    THEN LET message == action.messages[1]
         IN  IF message.kind = "agent_output" /\ message.text # << >>
             THEN [acc EXCEPT !.chunks = Append(@, ContentChunk(message.text))]
             ELSE acc
    ELSE IF action.kind = "add_messages_to_task"
    THEN ProcessTaskMessages(action.messages, acc)
    ELSE acc

RECURSIVE ProcessActions(_, _)
ProcessActions(actions, acc) ==
    IF actions = << >> THEN acc
    ELSE ProcessActions(Tail(actions), ProcessAction(Head(actions), acc))

\* ProcessEvent whose finish chunk always says "stop"
ProcessEvent_AlwaysStop(ev, emitted) ==
    LET acc == IF ev.kind = "client_actions"
               THEN ProcessActions(ev.actions, [chunks |-> << >>, emitted |-> emitted])
               ELSE [chunks |-> << >>, emitted |-> emitted]
    IN  IF ev.kind = "finished"
        THEN [acc EXCEPT !.chunks = Append(@, FinishChunk("stop"))]
        ELSE acc

\* lines 221-322: one decoded event; the chunks it yields and the new value
\* of tool_calls_emitted
ProcessEvent(ev, emitted) ==
    LET acc == IF ev.kind = "client_actions"
               THEN ProcessActions(ev.actions, [chunks |-> << >>, emitted |-> emitted])
               ELSE [chunks |-> << >>, emitted |-> emitted]
    IN  IF ev.kind = "finished"
        THEN [acc EXCEPT !.chunks =
                 Append(@, FinishChunk(IF acc.emitted THEN "tool_calls" ELSE "stop"))]
        ELSE acc

\* lines 16-28
Open ==
    /\ spc = "start"
    /\ out' = Append(out, RoleChunk)
    /\ spc' = "request"
    /\ UNCHANGED <<nlines, upstream, current, tool_calls_emitted, statuses,
                   chatVars, reorderVars, loopVars, authVars, schemaVars, codecVars>>

\* Fail that ends the stream on the error chunk
Fail_NoDone ==
    /\ out' = Append(out, ErrorChunk)
    /\ spc' = "failed"

\* lines 330-345: the except branch
Fail ==
    /\ out' = out \o <<ErrorChunk, Done>>
    /\ spc' = "failed"

\* lines 41-43, 50-58 and 192-199: a stream POST and the bridge's status
StreamPost ==
    /\ spc \in {"request", "retry"}
    /\ posts' = posts + 1
    /\ \/ /\ Fail                                   \* the bridge is unreachable
          /\ UNCHANGED statuses
       \/ \E status \in BridgeStatuses :
             /\ statuses' = Append(statuses, status)
             /\ IF status = 429 /\ spc = "request"
                THEN spc' = "refresh" /\ UNCHANGED out
                ELSE IF status # 200
                THEN Fail                            \* RuntimeError("bridge error")
                ELSE spc' = "streaming" /\ UNCHANGED out
    /\ current' = << >>
    /\ tool_calls_emitted' = FALSE
    /\ UNCHANGED <<nlines, upstream, State, req, packet, pc, caller, rounds, health,
                   attempts, refreshes, bridge_resp, reply, reorderVars, loopVars, authVars, schemaVars, codecVars>>

\* StreamRefresh that opens the retried stream with a second role chunk
StreamRefresh_Reopen ==
    /\ spc = "refresh"
    /\ \E o \in RefreshOutcomes : refreshes' = Append(refreshes, o)
    /\ out' = Append(out, RoleChunk)
    /\ spc' = "retry"
    /\ UNCHANGED <<nlines, upstream, current, tool_calls_emitted, statuses,
                   State, req, packet, pc, caller, rounds, health, attempts, posts,
                   bridge_resp, reply, reorderVars, loopVars, authVars, schemaVars, codecVars>>

\* lines 44-48: best effort, its outcome is only logged
StreamRefresh ==
    /\ spc = "refresh"
    /\ \E o \in RefreshOutcomes : refreshes' = Append(refreshes, o)
    /\ spc' = "retry"
    /\ UNCHANGED <<nlines, upstream, current, tool_calls_emitted, out, statuses,
                   State, req, packet, pc, caller, rounds, health, attempts, posts,
                   bridge_resp, reply, reorderVars, loopVars, authVars, schemaVars, codecVars>>

\* lines 200-329 (and the same loop at lines 60-190): one line of the body
ReadLine ==
    /\ spc = "streaming"
    /\ nlines < MaxLines
    /\ nlines' = nlines + 1
    /\ \E line \in Lines :
          IF line.kind = "done"
          THEN /\ out' = Append(out, Done)             \* break, then [DONE]
               /\ spc' = "done"
               /\ UNCHANGED <<upstream, current, tool_calls_emitted>>
          ELSE IF line.kind = "data"
          THEN /\ current' = Append(current, line.payload)
               /\ UNCHANGED <<upstream, tool_calls_emitted, out, spc>>
          ELSE IF line.kind = "blank" /\ current # << >>
          THEN /\ current' = << >>
               /\ IF Len(current) = 1 /\ current[1].valid
                  THEN IF current[1].event = NotAnObject
                       THEN /\ Fail                   \* line 220: .get raises
                            /\ UNCHANGED <<upstream, tool_calls_emitted>>
                       ELSE LET r == ProcessEvent(current[1].event, tool_calls_emitted)
                            IN  /\ out' = out \o r.chunks
                                /\ tool_calls_emitted' = r.emitted
                                /\ upstream' = Append(upstream, current[1].event)
                                /\ UNCHANGED spc
                  ELSE UNCHANGED <<upstream, tool_calls_emitted, out, spc>>   \* json.loads raises
          ELSE UNCHANGED <<upstream, current, tool_calls_emitted, out, spc>>
    /\ UNCHANGED <<statuses, chatVars, reorderVars, loopVars, authVars, schemaVars, codecVars>>

\* the body ends without a [DONE] line: the loop is left, [DONE] is yielded
EndOfBody ==
    /\ spc = "streaming"
    /\ out' = Append(out, Done)
    /\ spc' = "done"
    /\ UNCHANGED <<nlines, upstream, current, tool_calls_emitted, statuses,
                   chatVars, reorderVars, loopVars, authVars, schemaVars, codecVars>>

\* reading the body raises (timeout, connection lost)
ReadError ==
    /\ spc = "streaming"
    /\ Fail
    /\ UNCHANGED <<nlines, upstream, current, tool_calls_emitted, statuses,
                   chatVars, reorderVars, loopVars, authVars, schemaVars, codecVars>>

\* STATE as the handler may have left it, and the packet of a request
\* [user "q"] built from it (router.py lines 79-126)
StreamStates ==
    { [conversation_id |-> "c1", baseline_task_id |-> "t1",
       tool_call_id |-> "u1", tool_message_id |-> "u2"],
      [conversation_id |-> "", baseline_task_id |-> "u1",
       tool_call_id |-> "u1", tool_message_id |-> "u2"] }

InitStream ==
    /\ State \in StreamStates
    /\ req = [messages |-> <<ChatMessage("user", StrContent(<<"q">>), "", << >>)>>,
              stream |-> TRUE]
    /\ packet = BuildPacket(State, req.messages, "u1", "u1", "u2").packet
    /\ pc = "done"
    /\ caller = "chat"
    /\ rounds = 0
    /\ health = "none"
    /\ attempts = 0
    /\ posts = 0
    /\ refreshes = << >>
    /\ bridge_resp = << >>
    /\ reply = Reply(200, "stream")
    /\ spc = "start"
    /\ nlines = 0
    /\ upstream = << >>
    /\ current = << >>
    /\ tool_calls_emitted = FALSE
    /\ out = << >>
    /\ statuses = << >>
    /\ ReorderIdle
    /\ LoopIdle
    /\ AuthIdle
    /\ SchemaIdle
    /\ CodecIdle

NextStream ==
    \/ Open
    \/ StreamPost
    \/ StreamRefresh
    \/ ReadLine
    \/ EndOfBody
    \/ ReadError

SpecStream == InitStream /\ [][NextStream]_vars

\* Both paths of a chat request: a behaviour of the handler (the generator
\* is off), or a behaviour of the generator of a streaming request whose
\* handler has returned.
InitCompat == Init \/ InitStream

NextCompat ==
    \/ spc = "off" /\ Next
    \/ NextStream

SpecCompat == InitCompat /\ [][NextCompat]_vars

----------------------------------------------------------------------------
(* auth.py, api_client.py: the credential manager and the upstream client  *)

Calls == 1..NumCalls

\* auth.py lines 40-47
is_token_expired(token, buffer_minutes) ==
    token.left = NoExp \/ token.left <= buffer_minutes

\* load_dotenv(override=True): every key of the file replaces the variable
load_dotenv(env, file) ==
    [WARP_JWT |-> IF file.WARP_JWT # NoToken THEN file.WARP_JWT ELSE env.WARP_JWT,
     WARP_REFRESH_TOKEN |-> IF file.WARP_REFRESH_TOKEN # ""
                            THEN file.WARP_REFRESH_TOKEN ELSE env.WARP_REFRESH_TOKEN]

\* WARP_JWT as the .env file may hold it when a call starts
EnvTokens ==
    {NoToken, Jwt("j0", 60), Jwt("j0", 1), Jwt("j0", -5), Jwt("bad", NoExp)}

\* token_data["access_token"] of refresh_jwt_token (auth.py lines 50-90);
\* NoToken is {} or a token_data without access_token
RefreshResults == {NoToken, Jwt("jr", 60), Jwt("jr", -5)}

\* auth.py lines 115-147, from the answer token_data of refresh_jwt_token
\* on: the value returned and the .env file it leaves
check_and_refresh_token(current_jwt, token_data, file) ==
    IF current_jwt = NoToken
    THEN IF token_data # NoToken
         THEN [ok |-> TRUE, file |-> [file EXCEPT !.WARP_JWT = token_data]]
         ELSE [ok |-> FALSE, file |-> file]
    ELSE IF token_data # NoToken /\ ~is_token_expired(token_data, 0)
         THEN [ok |-> TRUE, file |-> [file EXCEPT !.WARP_JWT = token_data]]
         ELSE [ok |-> FALSE, file |-> file]

\* what acquire_anonymous_access_token obtains for call p
AnonNames == <<"anon1", "anon2", "anon3">>
AnonJwt(p) == Jwt(AnonNames[p], 60)
AnonRefreshToken(p) == AnonNames[p]

\* the status of an upstream answer and whether its body names the
\* exhausted quota (api_client.py lines 289-291)
UpstreamAnswers ==
    {[status |-> 200, quota |-> FALSE], [status |-> 429, quota |-> TRUE],
     [status |-> 429, quota |-> FALSE], [status |-> 500, quota |-> FALSE]}

\* one call of send_protobuf_to_warp_api_parsed: jwt is its local variable,
\* loaded the WARP_JWT get_valid_jwt read first, sent the bearer tokens of
\* its POSTs, answers the upstream's answers, checks the values returned by
\* check_and_refresh_token, acquires the calls of
\* acquire_anonymous_access_token and acquired what the last one returned
\* result is the tuple returned (api_client.py lines 304, 307 and 413)
NoResult == [status |-> 0, quota |-> FALSE, conversation_id |-> "", task_id |-> ""]

NewCall ==
    [pc |-> "start", jwt |-> NoToken, loaded |-> NoToken, sent |-> << >>,
     answers |-> << >>, checks |-> << >>, acquires |-> 0, acquired |-> NoToken,
     returned |-> "", result |-> NoResult]

\* api_client.py lines 304 and 307: the text names the status and the body
\* of the answer a, the ids are None and parsed_events is empty
ErrorResult(a) ==
    [status |-> a.status, quota |-> a.quota, conversation_id |-> "", task_id |-> ""]

\* api_client.py line 413, for a stream whose init event named c1 and t1
OkResult == [status |-> 200, quota |-> FALSE, conversation_id |-> "c1", task_id |-> "t1"]

\* api_client.py line 284: the POST leaves with the bearer token jwt
SendPost(c, jwt) == [c EXCEPT !.pc = "post", !.jwt = jwt, !.sent = Append(@, jwt)]

\* what get_valid_jwt read and did is kept until its caller goes on
Forget(c) == [c EXCEPT !.loaded = NoToken, !.checks = << >>]

\* the call ends and its local jwt with it
Finish(c, how) == [Forget(c) EXCEPT !.pc = "done", !.jwt = NoToken, !.returned = how]

\* api_client.py line 273 and auth.py lines 150-163, up to the first await:
\* the env is reloaded and either the token is good, or refresh_jwt_token
\* sends its request
GetValidJwt ==
    \E p \in Calls :
        /\ calls[p].pc = "start"
        /\ LET env == load_dotenv(environ, dotenv)
               jwt == env.WARP_JWT
           IN  /\ environ' = env
               /\ calls' = [calls EXCEPT ![p] =
                     IF jwt = NoToken
                     THEN [@ EXCEPT !.pc = "refresh_absent", !.loaded = jwt]
                     ELSE IF is_token_expired(jwt, 2)
                     THEN [@ EXCEPT !.pc = "refresh_near", !.loaded = jwt, !.jwt = jwt]
                     ELSE SendPost([@ EXCEPT !.loaded = jwt], jwt)]
        /\ UNCHANGED <<dotenv, reorderVars, chatVars, streamVars, loopVars, schemaVars, codecVars>>

\* auth.py lines 154-163: the refresh asked for because WARP_JWT was not set
\* is answered
RefreshedAbsent ==
    \E p \in Calls, token_data \in RefreshResults :
        /\ calls[p].pc = "refresh_absent"
        /\ LET r == check_and_refresh_token(NoToken, token_data, dotenv)
               env == load_dotenv(environ, r.file)
               jwt == env.WARP_JWT
               c == [calls[p] EXCEPT !.checks = Append(@, r.ok)]
           IN  IF r.ok
               THEN /\ dotenv' = r.file
                    /\ environ' = env
                    /\ calls' = [calls EXCEPT ![p] =
                          IF is_token_expired(jwt, 2)
                          THEN [c EXCEPT !.pc = "refresh_near", !.jwt = jwt]
                          ELSE SendPost(c, jwt)]
               ELSE /\ calls' = [calls EXCEPT ![p] = Finish(c, "raised")]   \* RuntimeError
                    /\ UNCHANGED <<dotenv, environ>>
        /\ UNCHANGED <<reorderVars, chatVars, streamVars, loopVars, schemaVars, codecVars>>

\* auth.py lines 161-170: the refresh asked for because the token is within
\* 2 minutes of exp is answered; the token is returned whatever happened
RefreshedNear ==
    \E p \in Calls, token_data \in RefreshResults :
        /\ calls[p].pc = "refresh_near"
        /\ LET r == check_and_refresh_token(calls[p].jwt, token_data, dotenv)
               env == load_dotenv(environ, r.file)
               c == [calls[p] EXCEPT !.checks = Append(@, r.ok)]
           IN  IF r.ok
               THEN /\ dotenv' = r.file
                    /\ environ' = env
                    /\ calls' = [calls EXCEPT ![p] = SendPost(c, env.WARP_JWT)]
               ELSE /\ calls' = [calls EXCEPT ![p] = SendPost(c, c.jwt)]
                    /\ UNCHANGED <<dotenv, environ>>
        /\ UNCHANGED <<reorderVars, chatVars, streamVars, loopVars, schemaVars, codecVars>>

\* UpstreamAnswer that acquires a token on every 429 of the first attempt
UpstreamAnswer_Any429 ==
    \E p \in Calls :
        /\ calls[p].pc = "post"
        /\ \/ calls' = [calls EXCEPT ![p] = Finish(@, "raised")]
           \/ \E a \in UpstreamAnswers :
                 LET c == [Forget(calls[p]) EXCEPT !.answers = Append(@, a)]
                     attempt == Len(c.sent) - 1
                 IN  calls' = [calls EXCEPT ![p] =
                        IF a.status = 200
                        THEN [Finish(c, "ok") EXCEPT !.result = OkResult]
                        ELSE IF a.status = 429 /\ attempt = 0
                        THEN [c EXCEPT !.pc = "create_user", !.acquires = @ + 1]
                        ELSE [Finish(c, "error") EXCEPT !.result = ErrorResult(a)]]
        /\ UNCHANGED <<environ, dotenv, reorderVars, chatVars, streamVars,
                       loopVars, schemaVars, codecVars>>

\* api_client.py lines 284-307 and 309-413: the upstream answers the POST,
\* or the POST raises
UpstreamAnswer ==
    \E p \in Calls :
        /\ calls[p].pc = "post"
        /\ \/ calls' = [calls EXCEPT ![p] = Finish(@, "raised")]
           \/ \E a \in UpstreamAnswers :
                 LET c == [Forget(calls[p]) EXCEPT !.answers = Append(@, a)]
                     attempt == Len(c.sent) - 1
                 IN  calls' = [calls EXCEPT ![p] =
                        IF a.status = 200
                        THEN [Finish(c, "ok") EXCEPT !.result = OkResult]
                        ELSE IF a.status = 429 /\ attempt = 0 /\ a.quota
                        THEN [c EXCEPT !.pc = "create_user", !.acquires = @ + 1]
                        ELSE [Finish(c, "error") EXCEPT !.result = ErrorResult(a)]]
        /\ UNCHANGED <<environ, dotenv, reorderVars, chatVars, streamVars,
                       loopVars, schemaVars, codecVars>>

\* auth.py lines 287-294: CreateAnonymousUser is answered
CreateAnonymousUser ==
    \E p \in Calls, ok \in BOOLEAN :
        /\ calls[p].pc = "create_user"
        /\ calls' = [calls EXCEPT ![p] =
              IF ok THEN [@ EXCEPT !.pc = "sign_in"] ELSE [Finish(@, "error") EXCEPT !.result = ErrorResult(calls[p].answers[1])]]
        /\ UNCHANGED <<environ, dotenv, reorderVars, chatVars, streamVars,
                       loopVars, schemaVars, codecVars>>

\* SignInWithCustomToken that keeps the refresh token in memory only
SignInWithCustomToken_NoPersist ==
    \E p \in Calls, ok \in BOOLEAN :
        /\ calls[p].pc = "sign_in"
        /\ calls' = [calls EXCEPT ![p] =
              IF ok THEN [@ EXCEPT !.pc = "access_token"]
              ELSE [Finish(@, "error") EXCEPT !.result = ErrorResult(calls[p].answers[1])]]
        /\ UNCHANGED <<dotenv, environ, reorderVars, chatVars, streamVars, loopVars, schemaVars, codecVars>>

\* auth.py lines 296-302: signInWithCustomToken is answered and the refresh
\* token is written to the .env file
SignInWithCustomToken ==
    \E p \in Calls, ok \in BOOLEAN :
        /\ calls[p].pc = "sign_in"
        /\ IF ok
           THEN /\ dotenv' = [dotenv EXCEPT !.WARP_REFRESH_TOKEN = AnonRefreshToken(p)]
                /\ calls' = [calls EXCEPT ![p].pc = "access_token"]
           ELSE /\ calls' = [calls EXCEPT ![p] = [Finish(@, "error") EXCEPT !.result = ErrorResult(calls[p].answers[1])]]
                /\ UNCHANGED dotenv
        /\ UNCHANGED <<environ, reorderVars, chatVars, streamVars, loopVars, schemaVars, codecVars>>

\* AcquireAccessToken whose retry keeps the token of the first attempt
AcquireAccessToken_KeepJwt ==
    \E p \in Calls, ok \in BOOLEAN :
        /\ calls[p].pc = "access_token"
        /\ IF ok
           THEN /\ dotenv' = [dotenv EXCEPT !.WARP_JWT = AnonJwt(p)]
                /\ calls' = [calls EXCEPT ![p] =
                      SendPost([@ EXCEPT !.acquired = AnonJwt(p)], @.jwt)]
           ELSE /\ calls' = [calls EXCEPT ![p] = [Finish(@, "error") EXCEPT !.result = ErrorResult(calls[p].answers[1])]]
                /\ UNCHANGED dotenv
        /\ UNCHANGED <<environ, reorderVars, chatVars, streamVars, loopVars, schemaVars, codecVars>>

\* auth.py lines 304-325 and api_client.py lines 297-300: the token endpoint
\* is answered, WARP_JWT is written to the .env file and the POST is sent
\* again with the new token
AcquireAccessToken ==
    \E p \in Calls, ok \in BOOLEAN :
        /\ calls[p].pc = "access_token"
        /\ IF ok
           THEN /\ dotenv' = [dotenv EXCEPT !.WARP_JWT = AnonJwt(p)]
                /\ calls' = [calls EXCEPT ![p] =
                      SendPost([@ EXCEPT !.acquired = AnonJwt(p)], AnonJwt(p))]
           ELSE /\ calls' = [calls EXCEPT ![p] = [Finish(@, "error") EXCEPT !.result = ErrorResult(calls[p].answers[1])]]
                /\ UNCHANGED dotenv
        /\ UNCHANGED <<environ, reorderVars, chatVars, streamVars, loopVars, schemaVars, codecVars>>

InitUpstream ==
    /\ dotenv \in {[WARP_JWT |-> t, WARP_REFRESH_TOKEN |-> "rt0"] : t \in EnvTokens}
    /\ environ = dotenv
    /\ calls = [p \in Calls |-> NewCall]
    /\ ReorderIdle
    /\ ChatIdle
    /\ StreamIdle
    /\ LoopIdle
    /\ SchemaIdle
    /\ CodecIdle

\* the calls are coroutines of one event loop: each action runs from one
\* await to the next, and the answers arrive in any order
NextUpstream ==
    \/ GetValidJwt
    \/ RefreshedAbsent
    \/ RefreshedNear
    \/ UpstreamAnswer
    \/ CreateAnonymousUser
    \/ SignInWithCustomToken
    \/ AcquireAccessToken

SpecUpstream == InitUpstream /\ [][NextUpstream]_vars

----------------------------------------------------------------------------
(* auth.py: refresh_jwt_if_needed, the check at startup                    *)

\* WARP_JWT of the process at startup: the tokens of EnvTokens and tokens
\* around the 15-minute buffer
StartupTokens == EnvTokens \cup {Jwt("j0", 14), Jwt("j0", 15), Jwt("j0", 16)}

\* one call of check_and_refresh_token: current_jwt is its local variable,
\* requests the calls of refresh_jwt_token, token_data the access_token
\* answered, returned the value it returns
NewCheck ==
    [pc |-> "check", current_jwt |-> NoToken, requests |-> 0,
     token_data |-> NoToken, returned |-> "none"]

\* RefreshJwtIfNeeded with the 2-minute buffer of get_valid_jwt
RefreshJwtIfNeeded_TwoMinutes ==
    /\ calls[1].pc = "check"
    /\ LET current_jwt == environ.WARP_JWT
       IN  calls' = [calls EXCEPT ![1] =
              IF current_jwt = NoToken \/ is_token_expired(current_jwt, 2)
              THEN [@ EXCEPT !.pc = "refreshing", !.current_jwt = current_jwt,
                             !.requests = @ + 1]
              ELSE [@ EXCEPT !.pc = "done", !.current_jwt = current_jwt,
                             !.returned = "true"]]
    /\ UNCHANGED <<environ, dotenv, reorderVars, chatVars, streamVars,
                   loopVars, schemaVars, codecVars>>

\* auth.py lines 179-181 and 115-122, 129-131, 146-147: WARP_JWT of the
\* process is read; refresh_jwt_token sends its request when it is missing
\* or within 15 minutes of exp, and True is returned otherwise
RefreshJwtIfNeeded ==
    /\ calls[1].pc = "check"
    /\ LET current_jwt == environ.WARP_JWT
       IN  calls' = [calls EXCEPT ![1] =
              IF current_jwt = NoToken \/ is_token_expired(current_jwt, 15)
              THEN [@ EXCEPT !.pc = "refreshing", !.current_jwt = current_jwt,
                             !.requests = @ + 1]
              ELSE [@ EXCEPT !.pc = "done", !.current_jwt = current_jwt,
                             !.returned = "true"]]
    /\ UNCHANGED <<environ, dotenv, reorderVars, chatVars, streamVars,
                   loopVars, schemaVars, codecVars>>

\* auth.py lines 122-128 and 131-145: refresh_jwt_token is answered;
\* update_env_file writes the .env file and leaves os.environ alone
RefreshJwtAnswered ==
    \E token_data \in RefreshResults :
        /\ calls[1].pc = "refreshing"
        /\ LET r == check_and_refresh_token(calls[1].current_jwt, token_data, dotenv)
           IN  /\ dotenv' = r.file
               /\ calls' = [calls EXCEPT ![1] =
                     [@ EXCEPT !.pc = "done", !.token_data = token_data,
                               !.returned = IF r.ok THEN "true" ELSE "false"]]
        /\ UNCHANGED <<environ, reorderVars, chatVars, streamVars, loopVars, schemaVars, codecVars>>

InitRefresh ==
    /\ environ \in {[WARP_JWT |-> t, WARP_REFRESH_TOKEN |-> "rt0"] : t \in StartupTokens}
    /\ dotenv \in {[WARP_JWT |-> t, WARP_REFRESH_TOKEN |-> "rt0"] : t \in StartupTokens}
    /\ calls = <<NewCheck>>
    /\ ReorderIdle
    /\ ChatIdle
    /\ StreamIdle
    /\ LoopIdle
    /\ SchemaIdle
    /\ CodecIdle

NextRefresh ==
    \/ RefreshJwtIfNeeded
    \/ RefreshJwtAnswered

SpecRefresh == InitRefresh /\ [][NextRefresh]_vars

----------------------------------------------------------------------------
(* api_client.py: the loops of send_protobuf_to_warp_api and               *)
(* send_protobuf_to_warp_api_parsed over the events of one upstream        *)
(* stream.  An event is the dict protobuf_to_dict returns (parses FALSE:   *)
(* the payload is skipped); it carries at most one of init, client_actions *)
(* and finished.  "" is None or a missing key.                             *)

\* one action of client_actions.actions: texts are the agent_output.text of
\* its message(s), task_id the task_id of add_messages_to_task
SseAction(kind, texts, task_id) == [kind |-> kind, texts |-> texts, task_id |-> task_id]

\* init is << >> or <<[conversation_id, task_id]>>; has_actions says whether
\* the dict has the key client_actions
SseEvent(parses, init, has_actions, actions) ==
    [parses |-> parses, init |-> init, has_actions |-> has_actions, actions |-> actions]

SseEvents ==
    {SseEvent(FALSE, << >>, FALSE, << >>),
     SseEvent(TRUE, <<[conversation_id |-> "c2", task_id |-> "t1"]>>, FALSE, << >>),
     SseEvent(TRUE, << >>, TRUE,
              <<SseAction("append_to_message_content", <<"h">>, "")>>),
     SseEvent(TRUE, << >>, TRUE,
              <<SseAction("add_messages_to_task", <<"i", "", "j">>, "t2"),
                SseAction("update_task_message", <<"u">>, "")>>),
     SseEvent(TRUE, << >>, FALSE, << >>)}

\* the locals of one call when its stream opens (lines 74-78, 258-262)
NewAggregate(fn, events) ==
    [fn |-> fn, pc |-> "reading", events |-> events, complete_response |-> << >>,
     conversation_id |-> "", task_id |-> "", returned |-> << >>]

RECURSIVE NonEmpty(_)
NonEmpty(texts) ==
    IF texts = << >> THEN << >>
    ELSE (IF Head(texts) # "" THEN <<Head(texts)>> ELSE << >>) \o NonEmpty(Tail(texts))

\* lines 196-216 and 376-396: what one action does to the locals
RECURSIVE ApplyActions(_, _)
ApplyActions(c, actions) ==
    IF actions = << >> THEN c
    ELSE LET action == Head(actions)
             c1 == IF action.kind \in {"append_to_message_content", "add_messages_to_task"}
                   THEN [c EXCEPT !.complete_response = @ \o NonEmpty(action.texts)]
                   ELSE c
             c2 == IF action.kind = "add_messages_to_task" /\ action.task_id # ""
                   THEN [c1 EXCEPT !.task_id = action.task_id] ELSE c1
         IN  ApplyActions(c2, Tail(actions))

\* lines 187-190 and 366-369
ApplyInit(c, event) ==
    IF event.init # << >>
    THEN [c EXCEPT !.conversation_id = event.init[1].conversation_id,
                   !.task_id = event.init[1].task_id]
    ELSE c

\* lines 187-216: send_protobuf_to_warp_api reads client_actions inside
\* the `if "init" in event_data:` block
PlainEvent(c, event) ==
    IF event.init # << >>
    THEN LET c1 == ApplyInit(c, event)
         IN  IF event.has_actions THEN ApplyActions(c1, event.actions) ELSE c1
    ELSE c

\* lines 366-396: send_protobuf_to_warp_api_parsed reads client_actions of
\* every event
ParsedEvent(c, event) ==
    LET c1 == ApplyInit(c, event)
    IN  IF event.has_actions THEN ApplyActions(c1, event.actions) ELSE c1

\* lines 161-170 and 346-354: the next event of the stream of call p
ReadEvent(p) ==
    /\ calls[p].pc = "reading"
    /\ calls[p].events # << >>
    /\ LET event == Head(calls[p].events)
           c == [calls[p] EXCEPT !.events = Tail(@)]
       IN  calls' = [calls EXCEPT ![p] =
              IF ~event.parses THEN c
              ELSE IF c.fn = "send_protobuf_to_warp_api" THEN PlainEvent(c, event)
              ELSE ParsedEvent(c, event)]
    /\ UNCHANGED <<environ, dotenv, reorderVars, chatVars, streamVars, loopVars,
                   schemaVars, codecVars>>

NoContentWarning == <<"Warning: No response content received">>

\* lines 218-232 and 401-413: the stream has ended
ReturnAggregate(p) ==
    /\ calls[p].pc = "reading"
    /\ calls[p].events = << >>
    /\ LET c == calls[p]
           response == IF c.fn = "send_protobuf_to_warp_api" /\ c.complete_response = << >>
                       THEN NoContentWarning ELSE c.complete_response
       IN  calls' = [calls EXCEPT ![p] =
              [c EXCEPT !.pc = "returned",
                        !.returned = <<response, c.conversation_id, c.task_id>>]]
    /\ UNCHANGED <<environ, dotenv, reorderVars, chatVars, streamVars, loopVars,
                   schemaVars, codecVars>>

\* the two functions are called with the same upstream event stream
InitAggregate ==
    /\ environ = NoEnv
    /\ dotenv = NoEnv
    /\ \E events \in SeqsUpTo(SseEvents, MaxPayloads) :
          calls = <<NewAggregate("send_protobuf_to_warp_api", events),
                    NewAggregate("send_protobuf_to_warp_api_parsed", events)>>
    /\ ReorderIdle
    /\ ChatIdle
    /\ StreamIdle
    /\ LoopIdle
    /\ SchemaIdle
    /\ CodecIdle

NextAggregate ==
    \E p \in 1..2 :
        \/ ReadEvent(p)
        \/ ReturnAggregate(p)

SpecAggregate == InitAggregate /\ [][NextAggregate]_vars

----------------------------------------------------------------------------
(* warp/response.py: extract_openai_sse_deltas_from_response.  A payload   *)
(* is the ResponseEvent it parses to (parses FALSE: ParseFromString        *)
(* raises), a message has agent_output.text, agent_output.reasoning and    *)
(* may have a tool_call.                                                   *)

AgentMessage(text, reasoning, tool_call) ==
    [text |-> text, reasoning |-> reasoning, tool_call |-> tool_call]

ClientAction(kind, messages) == [kind |-> kind, messages |-> messages]

ResponseEvent(parses, actions, finished) ==
    [parses |-> parses, actions |-> actions, finished |-> finished]

\* one element of deltas: the key of choices[0].delta ("empty" for {}) and
\* choices[0].finish_reason ("none" for None)
Delta(key, finish_reason) == [key |-> key, finish_reason |-> finish_reason]

\* response.py lines 134-153: append_to_message_content
AppendDeltas(m) ==
    (IF m.text # "" THEN <<Delta("content", "none")>> ELSE << >>)
    \o (IF m.reasoning # "" THEN <<Delta("reasoning", "none")>> ELSE << >>)
    \o (IF m.tool_call
        THEN <<Delta("role", "none"), Delta("tool_calls", "none")>> ELSE << >>)

\* response.py lines 154-183: add_messages_to_task; the role delta is sent
\* for the message of index 0 only
AddDeltas(messages) ==
    Flatten([j \in 1..Len(messages) |->
        (IF messages[j].text # "" THEN <<Delta("content", "none")>> ELSE << >>)
        \o (IF messages[j].tool_call
            THEN (IF j = 1 THEN <<Delta("role", "none")>> ELSE << >>)
                 \o <<Delta("tool_calls", "none")>>
            ELSE << >>)])

\* response.py lines 184-192: update_task_message and create_task
TextDeltas(messages) ==
    Flatten([j \in 1..Len(messages) |->
        IF messages[j].text # "" THEN <<Delta("content", "none")>> ELSE << >>])

\* response.py lines 133-196
ActionDeltas(action) ==
    IF action.kind = "append_to_message_content" THEN AppendDeltas(action.messages[1])
    ELSE IF action.kind = "add_messages_to_task" THEN AddDeltas(action.messages)
    ELSE IF action.kind \in {"update_task_message", "create_task"}
    THEN TextDeltas(action.messages)
    ELSE << >>

\* response.py lines 123-204
extract_openai_sse_deltas_from_response(payload) ==
    IF ~payload.parses THEN << >>
    ELSE Flatten([i \in 1..Len(payload.actions) |-> ActionDeltas(payload.actions[i])])
         \o (IF payload.finished THEN <<Delta("empty", "stop")>> ELSE << >>)

SomeText == AgentMessage("hi", "", FALSE)
SomeReasoning == AgentMessage("", "r", FALSE)
SomeToolCall == AgentMessage("", "", TRUE)

\* the payloads of a stream
ResponseEvents ==
    {ResponseEvent(FALSE, << >>, FALSE),
     ResponseEvent(TRUE, << >>, FALSE),
     ResponseEvent(TRUE, << >>, TRUE),
     ResponseEvent(TRUE, <<ClientAction("append_to_message_content", <<SomeText>>)>>, FALSE),
     ResponseEvent(TRUE, <<ClientAction("append_to_message_content", <<SomeReasoning>>)>>, FALSE),
     ResponseEvent(TRUE, <<ClientAction("append_to_message_content", <<SomeToolCall>>)>>, FALSE),
     ResponseEvent(TRUE, <<ClientAction("add_messages_to_task", <<SomeText, SomeToolCall>>)>>, FALSE),
     ResponseEvent(TRUE, <<ClientAction("update_task_message", <<SomeText>>),
                           ClientAction("create_task", <<SomeText>>)>>, FALSE)}

\* the caller decodes the next payload of the stream and sends its deltas
DecodePayload ==
    /\ spc = "decode"
    /\ upstream # << >>
    /\ out' = out \o extract_openai_sse_deltas_from_response(Head(upstream))
    /\ upstream' = Tail(upstream)
    /\ nlines' = nlines + 1
    /\ UNCHANGED <<spc, current, tool_calls_emitted, statuses, reorderVars,
                   chatVars, loopVars, authVars, schemaVars, codecVars>>

InitDeltas ==
    /\ spc = "decode"
    /\ nlines = 0
    /\ upstream \in SeqsUpTo(ResponseEvents, MaxPayloads)
    /\ current = << >>
    /\ tool_calls_emitted = FALSE
    /\ out = << >>
    /\ statuses = << >>
    /\ ReorderIdle
    /\ ChatIdle
    /\ LoopIdle
    /\ AuthIdle
    /\ SchemaIdle
    /\ CodecIdle

NextDeltas == DecodePayload

SpecDeltas == InitDeltas /\ [][NextDeltas]_vars

----------------------------------------------------------------------------
(* app.py, router.py, bridge.py: the requests of one event loop            *)

Handlers == 1..NumHandlers

\* the value of loop while the startup hook runs: uvicorn serves no request
\* before it has ended
StartupHook == -1

\* conversation_id and task_id of a bridge answer
BridgeIds ==
    {[conversation_id |-> c, task_id |-> t] : c \in ConvIds \cup {""}, t \in TaskIds \cup {""}}

NoIds == [conversation_id |-> "", task_id |-> ""]

\* the STATE fields a handler reads into its packet
StateIds(S) == [conversation_id |-> S.conversation_id, baseline_task_id |-> S.baseline_task_id]

\* a handler coroutine that is not running: read is what it read of STATE
\* at router.py lines 79 and 94, resp the bridge's answer
\* preamble: the message id and tool_call_id of the first message of its
\* packet (packets.py lines 43-50)
NoPreamble == [id |-> "", tool_call_id |-> ""]

IdleHandler ==
    [pc |-> "idle", stream |-> FALSE,
     read |-> [conversation_id |-> "", baseline_task_id |-> ""],
     preamble |-> NoPreamble, resp |-> NoIds]

\* the ids of the preamble of a packet built from STATE S
PreambleIds(S, u1, u2) ==
    [id |-> Preamble(S, "", u1, u2).id,
     tool_call_id |-> Preamble(S, "", u1, u2).tool_call_id]

\* bridge.py lines 52-105: the STATE initialize_once may leave and the number
\* of warmup requests the bridge answered (health rounds and attempts that
\* fail leave by an exception)
initialize_once(S) ==
    IF S.conversation_id # ""
    THEN {[State |-> S, performed |-> 0]}
    ELSE LET first(u1, u2, u3) ==
                 [ensure_tool_ids(S, u1, u2) EXCEPT
                     !.baseline_task_id = IF @ = "" THEN u3 ELSE @]
         IN  {[State |-> first(u1, u2, u3), performed |-> 0] : u1, u2, u3 \in Uuids}
             \cup {[State |-> UpdateState(first(u[1], u[2], u[3]), resp), performed |-> 1] :
                      u \in Uuids \X Uuids \X Uuids, resp \in BridgeIds}

\* app.py lines 20-49: the startup hook awaits initialize_once
LoopStartup ==
    /\ loop = StartupHook
    /\ \E r \in initialize_once(State) :
          /\ State' = r.State
          /\ warmups' = warmups + r.performed
    /\ loop' = 0
    /\ UNCHANGED <<handlers, chatLocals, reorderVars, streamVars, authVars, schemaVars, codecVars>>

\* router.py lines 38-39: the event loop is free and starts the handler of a
\* request
LoopAccept ==
    \E h \in Handlers, stream \in BOOLEAN :
        /\ loop = 0
        /\ handlers[h].pc = "idle"
        /\ handlers' = [handlers EXCEPT ![h].pc = "initialize", ![h].stream = stream]
        /\ loop' = h
        /\ UNCHANGED <<warmups, chatVars, reorderVars, streamVars, authVars, schemaVars, codecVars>>

\* router.py lines 40-43: initialize_once, called without await
LoopInitializeOnce ==
    \E h \in Handlers :
        /\ loop = h
        /\ handlers[h].pc = "initialize"
        /\ \E r \in initialize_once(State) :
              /\ warmups + r.performed <= MaxWarmups
              /\ State' = r.State
              /\ warmups' = warmups + r.performed
        /\ handlers' = [handlers EXCEPT ![h].pc = "build"]
        /\ UNCHANGED <<loop, chatLocals, reorderVars, streamVars, authVars, schemaVars, codecVars>>

\* LoopBuild whose POST is awaited: the event loop is free while the bridge
\* works
LoopBuild_Await ==
    \E h \in Handlers, u1, u2 \in Uuids :
        /\ loop = h
        /\ handlers[h].pc = "build"
        /\ State' = ensure_tool_ids(State, u1, u2)
        /\ handlers' = [handlers EXCEPT
              ![h].read = StateIds(State),
              ![h].preamble = PreambleIds(ensure_tool_ids(State, u1, u2), u2, u1),
              ![h].pc = IF handlers[h].stream THEN "streaming" ELSE "post"]
        /\ loop' = 0
        /\ UNCHANGED <<warmups, chatLocals, reorderVars, streamVars, authVars, schemaVars, codecVars>>

\* router.py lines 45-126: the packet is built from STATE; a streaming
\* request returns its StreamingResponse, whose generator runs later, and a
\* non-streaming one goes on to requests.post without giving up the loop
LoopBuild ==
    \E h \in Handlers, u1, u2 \in Uuids :
        /\ loop = h
        /\ handlers[h].pc = "build"
        /\ State' = ensure_tool_ids(State, u1, u2)
        /\ handlers' = [handlers EXCEPT
              ![h].read = StateIds(State),
              ![h].preamble = PreambleIds(ensure_tool_ids(State, u1, u2), u2, u1),
              ![h].pc = IF handlers[h].stream THEN "streaming" ELSE "post"]
        /\ loop' = IF handlers[h].stream THEN 0 ELSE h
        /\ UNCHANGED <<warmups, chatLocals, reorderVars, streamVars, authVars, schemaVars, codecVars>>

\* router.py lines 128-148: the blocking POST returns an answer, or the
\* handler leaves with an HTTPException
LoopPost ==
    \E h \in Handlers :
        /\ loop = h
        /\ handlers[h].pc = "post"
        /\ \/ /\ handlers' = [handlers EXCEPT ![h] = IdleHandler]
              /\ loop' = 0
           \/ \E resp \in BridgeIds :
                 /\ handlers' = [handlers EXCEPT ![h].pc = "write", ![h].resp = resp]
                 /\ UNCHANGED loop
        /\ UNCHANGED <<warmups, chatVars, reorderVars, streamVars, authVars, schemaVars, codecVars>>

\* router.py lines 150-201: STATE is updated and the handler returns
LoopWrite ==
    \E h \in Handlers :
        /\ loop = h
        /\ handlers[h].pc = "write"
        /\ State' = UpdateState(State, handlers[h].resp)
        /\ handlers' = [handlers EXCEPT ![h] = IdleHandler]
        /\ loop' = 0
        /\ UNCHANGED <<warmups, chatLocals, reorderVars, streamVars, authVars, schemaVars, codecVars>>

\* sse_transform.py lines 14-345: the generator of a streaming request runs
\* between its awaits and ends; it never touches STATE
LoopStream ==
    \E h \in Handlers :
        /\ loop = 0
        /\ handlers[h].pc = "streaming"
        /\ handlers' = [handlers EXCEPT ![h] = IdleHandler]
        /\ UNCHANGED <<loop, warmups, chatVars, reorderVars, streamVars, authVars, schemaVars, codecVars>>

InitLoop ==
    /\ ChatIdle
    /\ loop = StartupHook
    /\ handlers = [h \in Handlers |-> IdleHandler]
    /\ warmups = 0
    /\ ReorderIdle
    /\ StreamIdle
    /\ AuthIdle
    /\ SchemaIdle
    /\ CodecIdle

NextLoop ==
    \/ LoopStartup
    \/ LoopAccept
    \/ LoopInitializeOnce
    \/ LoopBuild
    \/ LoopPost
    \/ LoopWrite
    \/ LoopStream

SpecLoop == InitLoop /\ [][NextLoop]_vars

----------------------------------------------------------------------------
(* schema_sanitizer.py: JSON values and the sanitizer                      *)

\* A JSON value: t is its Python type, s the characters of a str (one token
\* stands for a run of non-blank characters, " " for blank ones), kids the
\* entries of a dict in insertion order (k the key, a str) or the items of a
\* list (k empty)
JNull == [t |-> "NoneType", s |-> << >>, kids |-> << >>]
JBool == [t |-> "bool", s |-> << >>, kids |-> << >>]
JStr(s) == [t |-> "str", s |-> s, kids |-> << >>]
JList(items) ==
    [t |-> "list", s |-> << >>,
     kids |-> [i \in 1..Len(items) |-> [k |-> << >>, v |-> items[i]]]]
JDict(entries) == [t |-> "dict", s |-> << >>, kids |-> entries]
Entry(k, v) == [k |-> k, v |-> v]

\* str.strip()
RECURSIVE lstrip(_)
lstrip(s) == IF s # << >> /\ Head(s) = " " THEN lstrip(Tail(s)) ELSE s

RECURSIVE rstrip(_)
rstrip(s) ==
    IF s # << >> /\ s[Len(s)] = " " THEN rstrip(SubSeq(s, 1, Len(s) - 1)) ELSE s

strip(s) == rstrip(lstrip(s))

\* str.lower()
lower(s) == [i \in 1..Len(s) |-> IF s[i] = "Headers" THEN "headers" ELSE s[i]]

\* k in d, d.get(k), d[k] = v, d.pop(k, None) of a dict d
Keys(d) == {d.kids[i].k : i \in 1..Len(d.kids)}

Has(d, k) == k \in Keys(d)

Get(d, k) ==
    IF Has(d, k)
    THEN d.kids[CHOOSE i \in 1..Len(d.kids) : d.kids[i].k = k].v
    ELSE JNull

Set(d, k, v) ==
    IF Has(d, k)
    THEN [d EXCEPT !.kids = [i \in 1..Len(@) |-> IF @[i].k = k THEN Entry(k, v) ELSE @[i]]]
    ELSE [d EXCEPT !.kids = Append(@, Entry(k, v))]

Pop(d, k) ==
    LET Other(e) == e.k # k
    IN  [d EXCEPT !.kids = SelectSeq(@, Other)]

\* schema_sanitizer.py lines 10-17
is_empty_value(value) ==
    \/ value.t = "NoneType"
    \/ value.t = "str" /\ strip(value.s) = << >>
    \/ value.t \in {"list", "dict"} /\ value.kids = << >>

\* schema_sanitizer.py lines 20-39
RECURSIVE deep_clean(_)
deep_clean(value) ==
    IF value.t \in {"dict", "list"}
    THEN LET cleaned == [i \in 1..Len(value.kids) |->
                            Entry(value.kids[i].k, deep_clean(value.kids[i].v))]
             Kept(e) == ~is_empty_value(e.v)
         IN  [value EXCEPT !.kids = SelectSeq(cleaned, Kept)]
    ELSE IF value.t = "str"
    THEN JStr(strip(value.s))
    ELSE value

\* schema_sanitizer.py lines 42-48
infer_type_for_property(prop_name) ==
    LET name == lower(prop_name)
    IN  IF name \in {<<"url">>, <<"uri">>, <<"href">>, <<"link">>} THEN <<"string">>
        ELSE IF name \in {<<"headers">>, <<"options">>, <<"params">>, <<"payload">>, <<"data">>}
        THEN <<"object">>
        ELSE <<"string">>

\* `k not in d or not isinstance(d.get(k), str) or not d[k].strip()`
LacksString(d, k) ==
    ~Has(d, k) \/ Get(d, k).t # "str" \/ strip(Get(d, k).s) = << >>

\* schema_sanitizer.py lines 88-93 and 118-126: the required list is
\* filtered by the keys of properties; anything but a list is left alone
CleanRequired(d, properties) ==
    IF Get(d, <<"required">>).t = "list"
    THEN LET Known(r) == r.v.t = "str" /\ properties.t = "dict" /\ Has(properties, r.v.s)
             known == SelectSeq(Get(d, <<"required">>).kids, Known)
         IN  IF known # << >>
             THEN Set(d, <<"required">>, [Get(d, <<"required">>) EXCEPT !.kids = known])
             ELSE Pop(d, <<"required">>)
    ELSE d

\* schema_sanitizer.py lines 94-95 and 128-130
DropEmptyAdditional(d) ==
    IF Get(d, <<"additionalProperties">>).t = "dict"
       /\ Get(d, <<"additionalProperties">>).kids = << >>
    THEN Pop(d, <<"additionalProperties">>)
    ELSE d

UserAgent ==
    JDict(<<Entry(<<"user-agent">>,
                  JDict(<<Entry(<<"type">>, JStr(<<"string">>)),
                          Entry(<<"description">>,
                                JStr(<<"User-Agent", " ", "header", " ", "for", " ",
                                       "the", " ", "request">>))>>))>>)

\* schema_sanitizer.py lines 74-82: one property of headers
FixHeader(hk, hv) ==
    LET sub == deep_clean(IF hv.t = "dict" THEN hv ELSE JDict(<< >>))
        typed == IF LacksString(sub, <<"type">>)
                 THEN Set(sub, <<"type">>, JStr(<<"string">>)) ELSE sub
    IN  IF LacksString(typed, <<"description">>)
        THEN Set(typed, <<"description">>, JStr(hk \o <<" ", "header">>))
        ELSE typed

\* schema_sanitizer.py lines 61-93
EnsureHeaders(prop) ==
    LET object == Set(prop, <<"type">>, JStr(<<"object">>))
        given == Get(object, <<"properties">>)
        headers_props == deep_clean(IF given.t = "dict" THEN given ELSE JDict(<< >>))
        fixed == IF headers_props.kids = << >>
                 THEN UserAgent
                 ELSE JDict([i \in 1..Len(headers_props.kids) |->
                               Entry(headers_props.kids[i].k,
                                     FixHeader(headers_props.kids[i].k, headers_props.kids[i].v))])
    IN  DropEmptyAdditional(CleanRequired(Set(object, <<"properties">>, fixed), fixed))

\* schema_sanitizer.py lines 51-95
ensure_property_schema(name, subschema) ==
    LET prop == deep_clean(IF subschema.t = "dict" THEN subschema ELSE JDict(<< >>))
        typed == IF LacksString(prop, <<"type">>)
                 THEN Set(prop, <<"type">>, JStr(infer_type_for_property(name))) ELSE prop
        described == IF LacksString(typed, <<"description">>)
                     THEN Set(typed, <<"description">>, JStr(name \o <<" ", "parameter">>))
                     ELSE typed
    IN  IF lower(name) = <<"headers">> THEN EnsureHeaders(described) ELSE described

Draft07 == JStr(<<"http://json-schema.org/draft-07/schema#">>)

\* schema_sanitizer.py lines 98-133
sanitize_json_schema(input) ==
    LET s0 == deep_clean(IF input.t = "dict" THEN input ELSE JDict(<< >>))
        s1 == IF Has(s0, <<"properties">>) /\ Get(s0, <<"type">>).t # "str"
              THEN Set(s0, <<"type">>, JStr(<<"object">>)) ELSE s0
        s2 == IF Has(s1, <<"$schema">>) /\ Get(s1, <<"$schema">>).t # "str"
              THEN Pop(s1, <<"$schema">>) ELSE s1
        s3 == IF ~Has(s2, <<"$schema">>) THEN Set(s2, <<"$schema">>, Draft07) ELSE s2
        properties == Get(s3, <<"properties">>)
        s4 == IF properties.t = "dict"
              THEN Set(s3, <<"properties">>,
                       JDict([i \in 1..Len(properties.kids) |->
                                Entry(properties.kids[i].k,
                                      ensure_property_schema(properties.kids[i].k,
                                                             properties.kids[i].v))]))
              ELSE s3
    IN  DropEmptyAdditional(CleanRequired(s4, properties))

\* the subschemas a client may give for one property
PropertySchemas ==
    {JDict(<< >>),
     JDict(<<Entry(<<"type">>, JStr(<<"string">>))>>),
     JDict(<<Entry(<<"type">>, JStr(<<" ">>)), Entry(<<"description">>, JStr(<<" ", "d", " ">>))>>),
     JDict(<<Entry(<<"type">>, JList(<<JStr(<<"string">>), JStr(<<"null">>)>>))>>),
     JDict(<<Entry(<<"properties">>,
                   JDict(<<Entry(<<"accept">>, JDict(<<Entry(<<"type">>, JBool)>>))>>)),
             Entry(<<"required">>, JList(<<JStr(<<"accept">>), JStr(<<"x">>)>>))>>),
     JStr(<<"string">>)}

\* the names of the properties of a tool
PropertyNames == {<<"a">>, <<"url">>, <<"Headers">>}

\* the values of `properties` a client may send
PropertiesValues ==
    {JNull, JList(<<JStr(<<"a">>)>>)}
    \cup {JDict(<<Entry(n, p)>>) : n \in PropertyNames, p \in PropertySchemas}
    \cup {JDict(<<Entry(<<"a">>, p), Entry(<<"Headers">>, q)>>) : p, q \in PropertySchemas}

\* the values of `required` a client may send
RequiredValues ==
    {JNull, JList(<< >>), JList(<<JStr(<<"a">>)>>), JList(<<JStr(<<"b">>)>>),
     JList(<<JStr(<<" ", "a">>), JStr(<<"b">>), JBool>>),
     JStr(<<"b">>), JBool}

\* the input_schema of a tool: the keys whose value is None are not sent
InputSchemas ==
    {LET Given(e) == e.v # JNull
     IN  JDict(SelectSeq(<<Entry(<<"type">>, ty), Entry(<<"properties">>, ps),
                           Entry(<<"required">>, rq)>>, Given)) :
        ty \in {JNull, JStr(<<"object">>)}, ps \in PropertiesValues, rq \in RequiredValues}

\* schema_sanitizer.py line 145: the packet is deep-cleaned first; an
\* input_schema that is empty afterwards is dropped from its tool
SchemaDeepClean ==
    /\ zpc = "input"
    /\ sanitized' = deep_clean(schema)
    /\ zpc' = IF is_empty_value(deep_clean(schema)) THEN "done" ELSE "cleaned"
    /\ UNCHANGED <<schema, reorderVars, chatVars, streamVars, loopVars, authVars, codecVars>>

\* schema_sanitizer.py lines 164-167
SchemaSanitize ==
    /\ zpc = "cleaned"
    /\ sanitized' = sanitize_json_schema(sanitized)
    /\ zpc' = "sanitized"
    /\ UNCHANGED <<schema, reorderVars, chatVars, streamVars, loopVars, authVars, codecVars>>

\* schema_sanitizer.py lines 168-172: the tool is deep-cleaned once more
SchemaReturn ==
    /\ zpc = "sanitized"
    /\ sanitized' = deep_clean(sanitized)
    /\ zpc' = "done"
    /\ UNCHANGED <<schema, reorderVars, chatVars, streamVars, loopVars, authVars, codecVars>>

InitSchema ==
    /\ schema \in InputSchemas
    /\ sanitized = << >>
    /\ zpc = "input"
    /\ ReorderIdle
    /\ ChatIdle
    /\ StreamIdle
    /\ LoopIdle
    /\ AuthIdle
    /\ CodecIdle

NextSchema ==
    \/ SchemaDeepClean
    \/ SchemaSanitize
    \/ SchemaReturn

SpecSchema == InitSchema /\ [][NextSchema]_vars

----------------------------------------------------------------------------
(* schema_sanitizer.py: sanitize_mcp_input_schema_in_packet on the packet  *)
(* chat_completions builds.  schema is the packet given, sanitized the     *)
(* packet returned.                                                        *)

\* `a or b` of two values of a dict.get(); a bool stands for True
Truthy(v) ==
    \/ v.t = "bool"
    \/ v.t = "str" /\ v.s # << >>
    \/ v.t \in {"list", "dict"} /\ v.kids # << >>

\* lines 160-167: the input_schema of one entry of mcp_context.tools
SanitizeTool(tool) ==
    IF tool.t # "dict" THEN tool
    ELSE LET a == Get(tool, <<"input_schema">>)
             input_schema == IF Truthy(a) THEN a ELSE Get(tool, <<"inputSchema">>)
             t1 == IF input_schema.t = "dict"
                   THEN Set(tool, <<"input_schema">>, sanitize_json_schema(input_schema))
                   ELSE tool
         IN  IF input_schema.t = "dict" /\ Has(t1, <<"inputSchema">>)
             THEN Set(t1, <<"inputSchema">>, Get(t1, <<"input_schema">>))
             ELSE t1

\* line 168: fixed_tools.append(_deep_clean(tool_copy))
CleanTool(tool) == IF tool.t # "dict" THEN tool ELSE deep_clean(tool)

\* lines 151-169: mcp_context.tools of one candidate root is replaced by
\* fixed_tools
SetTools(root, fixed_tools) ==
    Set(root, <<"mcp_context">>,
        Set(Get(root, <<"mcp_context">>), <<"tools">>, JList(fixed_tools)))

\* lines 151-158: the entries of mcp_context.tools of a candidate root,
\* << >> when it has none
ToolsOf(root) ==
    IF root.t = "dict" /\ Get(root, <<"mcp_context">>).t = "dict"
                      /\ Get(Get(root, <<"mcp_context">>), <<"tools">>).t = "list"
    THEN [i \in 1..Len(Get(Get(root, <<"mcp_context">>), <<"tools">>).kids) |->
            Get(Get(root, <<"mcp_context">>), <<"tools">>).kids[i].v]
    ELSE << >>

HasTools(root) ==
    /\ root.t = "dict"
    /\ Get(root, <<"mcp_context">>).t = "dict"
    /\ Get(Get(root, <<"mcp_context">>), <<"tools">>).t = "list"

\* router.py lines 79-109, packets.py lines 12-37: the packet of a request
\* whose one user message is `query`, whose history holds an assistant text
\* and a tool call with arguments args, and whose one tool has the given
\* description and input_schema; conv is STATE.conversation_id
PacketBody(query, text, args, description, input_schema, conv) ==
    JDict(<<
      Entry(<<"task_context">>, JDict(<<
          Entry(<<"tasks">>, JList(<<JDict(<<
              Entry(<<"id">>, JStr(<<"t1">>)),
              Entry(<<"description">>, JStr(<< >>)),
              Entry(<<"status">>, JDict(<<Entry(<<"in_progress">>, JDict(<< >>))>>)),
              Entry(<<"messages">>, JList(<<
                  JDict(<<Entry(<<"id">>, JStr(<<"u1">>)),
                          Entry(<<"task_id">>, JStr(<<"t1">>)),
                          Entry(<<"agent_output">>, JDict(<<Entry(<<"text">>, JStr(text))>>))>>),
                  JDict(<<Entry(<<"id">>, JStr(<<"u2">>)),
                          Entry(<<"task_id">>, JStr(<<"t1">>)),
                          Entry(<<"tool_call">>, JDict(<<
                              Entry(<<"tool_call_id">>, JStr(<<"a">>)),
                              Entry(<<"call_mcp_tool">>, JDict(<<
                                  Entry(<<"name">>, JStr(<<"f">>)),
                                  Entry(<<"args">>, args)>>))>>))>>)>>))>>)>>)),
          Entry(<<"active_task_id">>, JStr(<<"t1">>))>>)),
      Entry(<<"input">>, JDict(<<
          Entry(<<"context">>, JDict(<< >>)),
          Entry(<<"user_inputs">>, JDict(<<
              Entry(<<"inputs">>, JList(<<
                  JDict(<<Entry(<<"user_query">>,
                                JDict(<<Entry(<<"query">>, JStr(query))>>))>>)>>))>>))>>)),
      Entry(<<"settings">>, JDict(<<
          Entry(<<"model_config">>, JDict(<<Entry(<<"base">>, JStr(<<"claude-4.1-opus">>))>>)),
          Entry(<<"rules_enabled">>, JBool)>>)),
      Entry(<<"metadata">>, JDict(
          <<Entry(<<"logging">>, JDict(<<Entry(<<"entrypoint">>, JStr(<<"USER_INITIATED">>))>>))>>
          \o (IF conv # << >> THEN <<Entry(<<"conversation_id">>, JStr(conv))>> ELSE << >>))),
      Entry(<<"mcp_context">>, JDict(<<
          Entry(<<"tools">>, JList(<<JDict(<<
              Entry(<<"name">>, JStr(<<"f">>)),
              Entry(<<"description">>, JStr(description)),
              Entry(<<"input_schema">>, input_schema)>>)>>))>>))>>)

\* the input_schema of the tools of the packets given
PacketSchemas ==
    {JDict(<< >>),
     JDict(<<Entry(<<"type">>, JStr(<<"object">>))>>),
     JDict(<<Entry(<<"type">>, JStr(<<"object">>)),
             Entry(<<"properties">>, JDict(<<Entry(<<"url">>, JDict(<< >>))>>)),
             Entry(<<"required">>, JList(<<JStr(<<"url">>), JStr(<<"b">>)>>))>>),
     JDict(<<Entry(<<"properties">>,
                   JDict(<<Entry(<<"a">>, JDict(<<Entry(<<"type">>, JStr(<<" ">>))>>))>>))>>)}

PacketBodies ==
    {PacketBody(q, t, a, ds, sc, cv) :
        q \in {<<"q">>, <<" ", "q">>},
        t \in {<<"t">>, <<"t", " ">>},
        a \in {JDict(<< >>), JDict(<<Entry(<<"x">>, JStr(<<"1">>))>>)},
        ds \in {<< >>, <<"d">>},
        sc \in PacketSchemas,
        cv \in {<< >>, <<"c1">>}}

\* schema_sanitizer.py line 145: body = _deep_clean(body)
PacketDeepClean ==
    /\ zpc = "body"
    /\ sanitized' = deep_clean(schema)
    /\ zpc' = "cleaned"
    /\ UNCHANGED <<schema, reorderVars, chatVars, streamVars, loopVars, authVars, codecVars>>

\* lines 146-167: the input_schema of every tool of the packet is
\* sanitized (the packets given have no json_data root)
PacketSanitizeTools ==
    /\ zpc = "cleaned"
    /\ sanitized' = IF HasTools(sanitized)
                    THEN SetTools(sanitized,
                                  [i \in 1..Len(ToolsOf(sanitized)) |->
                                      SanitizeTool(ToolsOf(sanitized)[i])])
                    ELSE sanitized
    /\ zpc' = "fixed"
    /\ UNCHANGED <<schema, reorderVars, chatVars, streamVars, loopVars, authVars, codecVars>>

\* lines 168-173: every tool is deep-cleaned once more and the packet is
\* returned
PacketReturn ==
    /\ zpc = "fixed"
    /\ sanitized' = IF HasTools(sanitized)
                    THEN SetTools(sanitized,
                                  [i \in 1..Len(ToolsOf(sanitized)) |->
                                      CleanTool(ToolsOf(sanitized)[i])])
                    ELSE sanitized
    /\ zpc' = "returned"
    /\ UNCHANGED <<schema, reorderVars, chatVars, streamVars, loopVars, authVars, codecVars>>

InitPacket ==
    /\ schema \in PacketBodies
    /\ sanitized = << >>
    /\ zpc = "body"
    /\ ReorderIdle
    /\ ChatIdle
    /\ StreamIdle
    /\ LoopIdle
    /\ AuthIdle
    /\ CodecIdle

NextPacket ==
    \/ PacketDeepClean
    \/ PacketSanitizeTools
    \/ PacketReturn

SpecPacket == InitPacket /\ [][NextPacket]_vars

----------------------------------------------------------------------------
(* core/server_message_data.py.  bytes are sequences of 0..255, a          *)
(* Base64URL string is the sequence of the 6-bit values of its characters  *)
(* with Pad for "=", None is Python's None for an int and NoneStr for a    *)
(* str.                                                                    *)

Pad == 64
None == -1
NoneStr == <<-1>>

RECURSIVE Pow2(_)
Pow2(n) == IF n = 0 THEN 1 ELSE 2 * Pow2(n - 1)

\* s[a:b] of Python for 1-based a and length n: what lies beyond the end is
\* left out
Slice(s, a, n) ==
    IF a > Len(s) THEN << >>
    ELSE SubSeq(s, a, IF a + n - 1 > Len(s) THEN Len(s) ELSE a + n - 1)

\* base64.b64decode of the data characters cs (the padding taken off):
\* three bytes per four characters, the bits left over are dropped
RECURSIVE B64Bytes(_)
B64Bytes(cs) ==
    IF Len(cs) >= 4
    THEN LET n == cs[1] * 262144 + cs[2] * 4096 + cs[3] * 64 + cs[4]
         IN  <<n \div 65536, (n \div 256) % 256, n % 256>> \o B64Bytes(SubSeq(cs, 5, Len(cs)))
    ELSE IF Len(cs) = 3
    THEN LET n == cs[1] * 4096 + cs[2] * 64 + cs[3]
         IN  <<n \div 1024, (n \div 4) % 256>>
    ELSE IF Len(cs) = 2
    THEN <<(cs[1] * 64 + cs[2]) \div 16>>
    ELSE << >>

\* the characters of t before its padding
DataChars(t) == SelectSeq(t, LAMBDA c : c # Pad)

\* server_message_data.py lines 22-27: t is padded to a multiple of 4 and
\* decoded; a lone data character makes b64decode raise
b64url_decode_padded(t) ==
    IF Len(DataChars(t)) % 4 = 1
    THEN [raised |-> TRUE, raw |-> << >>]
    ELSE [raised |-> FALSE, raw |-> B64Bytes(DataChars(t))]

\* server_message_data.py lines 30-31: urlsafe_b64encode and rstrip("=")
RECURSIVE b64url_encode_nopad(_)
b64url_encode_nopad(b) ==
    IF Len(b) >= 3
    THEN LET n == b[1] * 65536 + b[2] * 256 + b[3]
         IN  <<n \div 262144, (n \div 4096) % 64, (n \div 64) % 64, n % 64>>
             \o b64url_encode_nopad(SubSeq(b, 4, Len(b)))
    ELSE IF Len(b) = 2
    THEN LET n == (b[1] * 256 + b[2]) * 4
         IN  <<n \div 4096, (n \div 64) % 64, n % 64>>
    ELSE IF Len(b) = 1
    THEN <<(b[1] * 16) \div 64, (b[1] * 16) % 64>>
    ELSE << >>

\* server_message_data.py lines 34-46: the varint of buf at i (1-based);
\* ok FALSE is the ValueError
RECURSIVE ReadVarintFrom(_, _, _, _)
ReadVarintFrom(buf, i, shift, val) ==
    IF i > Len(buf) THEN [ok |-> FALSE, val |-> 0, i |-> i]
    ELSE LET v == val + (buf[i] % 128) * Pow2(shift)
         IN  IF buf[i] < 128 THEN [ok |-> TRUE, val |-> v, i |-> i + 1]
             ELSE IF shift + 7 > 63 THEN [ok |-> FALSE, val |-> 0, i |-> i + 1]
             ELSE ReadVarintFrom(buf, i + 1, shift + 7, v)

read_varint(buf, i) == ReadVarintFrom(buf, i, 0, 0)

\* server_message_data.py lines 49-60
RECURSIVE write_varint(_)
write_varint(v) ==
    IF v \div 128 # 0
    THEN <<(v % 128) + 128>> \o write_varint(v \div 128)
    ELSE <<v % 128>>

\* server_message_data.py lines 63-64
make_key(field_no, wire_type) == write_varint(field_no * 8 + wire_type)

\* server_message_data.py lines 67-89, from index i on
RECURSIVE DecodeTimestampFrom(_, _, _, _)
DecodeTimestampFrom(buf, i, seconds, nanos) ==
    IF i > Len(buf) THEN [raised |-> FALSE, seconds |-> seconds, nanos |-> nanos]
    ELSE LET key == read_varint(buf, i)
             field_no == key.val \div 8
             wt == key.val % 8
             val == read_varint(buf, key.i)
         IN  IF ~key.ok THEN [raised |-> TRUE, seconds |-> None, nanos |-> None]
             ELSE IF wt = 0
             THEN IF ~val.ok THEN [raised |-> TRUE, seconds |-> None, nanos |-> None]
                  ELSE DecodeTimestampFrom(buf, val.i,
                          IF field_no = 1 THEN val.val ELSE seconds,
                          IF field_no = 2 THEN val.val ELSE nanos)
             ELSE IF wt = 2
             THEN IF ~val.ok THEN [raised |-> TRUE, seconds |-> None, nanos |-> None]
                  ELSE DecodeTimestampFrom(buf, val.i + val.val, seconds, nanos)
             ELSE IF wt = 1 THEN DecodeTimestampFrom(buf, key.i + 8, seconds, nanos)
             ELSE IF wt = 5 THEN DecodeTimestampFrom(buf, key.i + 4, seconds, nanos)
             ELSE [raised |-> FALSE, seconds |-> seconds, nanos |-> nanos]

decode_timestamp(buf) == DecodeTimestampFrom(buf, 1, None, None)

\* encode_timestamp that tests `if seconds:` and `if nanos:`
encode_timestamp_Truthy(seconds, nanos) ==
    (IF seconds # None /\ seconds # 0 THEN make_key(1, 0) \o write_varint(seconds) ELSE << >>)
    \o (IF nanos # None /\ nanos # 0 THEN make_key(2, 0) \o write_varint(nanos) ELSE << >>)

\* server_message_data.py lines 92-101
encode_timestamp(seconds, nanos) ==
    (IF seconds # None THEN make_key(1, 0) \o write_varint(seconds) ELSE << >>)
    \o (IF nanos # None THEN make_key(2, 0) \o write_varint(nanos) ELSE << >>)

\* data.decode("utf-8") for the bytes of one-byte characters; None when
\* it raises
DecodeUtf8(data) ==
    IF \A k \in 1..Len(data) : data[k] < 128 THEN data ELSE NoneStr

\* server_message_data.py lines 157-164
MessageType(uuid, seconds, nanos) ==
    IF uuid # NoneStr /\ uuid # << >> /\ (seconds # None \/ nanos # None)
    THEN "UUID_AND_TIMESTAMP"
    ELSE IF uuid # NoneStr /\ uuid # << >> THEN "UUID_ONLY"
    ELSE IF seconds # None \/ nanos # None THEN "TIMESTAMP_ONLY"
    ELSE "UNKNOWN"

Decoded(raised, uuid, seconds, nanos) ==
    [raised |-> raised, error |-> FALSE, uuid |-> uuid, seconds |-> seconds,
     nanos |-> nanos, type |-> MessageType(uuid, seconds, nanos)]

\* server_message_data.py lines 115-143, from index i on
RECURSIVE DecodeFrom(_, _, _, _, _)
DecodeFrom(raw, i, uuid, seconds, nanos) ==
    IF i > Len(raw) THEN Decoded(FALSE, uuid, seconds, nanos)
    ELSE LET key == read_varint(raw, i)
             field_no == key.val \div 8
             wt == key.val % 8
             ln == read_varint(raw, key.i)
             data == Slice(raw, ln.i, ln.val)
             ts == decode_timestamp(data)
         IN  IF ~key.ok THEN Decoded(TRUE, NoneStr, None, None)
             ELSE IF wt = 2
             THEN IF ~ln.ok THEN Decoded(TRUE, NoneStr, None, None)
                  ELSE IF field_no = 1
                  THEN DecodeFrom(raw, ln.i + ln.val, DecodeUtf8(data), seconds, nanos)
                  ELSE IF field_no = 3
                  THEN IF ts.raised THEN Decoded(TRUE, NoneStr, None, None)
                       ELSE DecodeFrom(raw, ln.i + ln.val, uuid,
                               IF ts.seconds # None THEN ts.seconds ELSE seconds,
                               IF ts.nanos # None THEN ts.nanos ELSE nanos)
                  ELSE DecodeFrom(raw, ln.i + ln.val, uuid, seconds, nanos)
             ELSE IF wt = 0
             THEN IF ~ln.ok THEN Decoded(TRUE, NoneStr, None, None)
                  ELSE DecodeFrom(raw, ln.i, uuid, seconds, nanos)
             ELSE IF wt = 1 THEN DecodeFrom(raw, key.i + 8, uuid, seconds, nanos)
             ELSE IF wt = 5 THEN DecodeFrom(raw, key.i + 4, uuid, seconds, nanos)
             ELSE Decoded(FALSE, uuid, seconds, nanos)

\* server_message_data.py lines 104-172; the two ISO renderings are not
\* part of what is encoded again
decode_server_message_data(b64url) ==
    LET r == b64url_decode_padded(b64url)
    IN  IF r.raised
        THEN [Decoded(FALSE, NoneStr, None, None) EXCEPT !.error = TRUE]
        ELSE DecodeFrom(r.raw, 1, NoneStr, None, None)

\* server_message_data.py lines 175-189
encode_server_message_data(uuid, seconds, nanos) ==
    LET ts == encode_timestamp(seconds, nanos)
    IN  b64url_encode_nopad(
            (IF uuid # NoneStr /\ uuid # << >>
             THEN make_key(1, 2) \o write_varint(Len(uuid)) \o uuid ELSE << >>)
            \o (IF seconds # None \/ nanos # None
                THEN make_key(3, 2) \o write_varint(Len(ts)) \o ts ELSE << >>))

\* the bytes of field 1 of the messages given: no UUID, and two strings
\* whose lengths leave different Base64 remainders
UuidFields == {<< >>, <<10, 2, 97, 98>>, <<10, 3, 51, 98, 52>>}

\* the bytes of a Timestamp: seconds 0, 1, 300 and 70000, nanos 5, 128 and
\* 999999999, each alone or together
TimestampBodies ==
    {<<8, 0>>, <<8, 1>>, <<8, 172, 2>>, <<8, 240, 162, 4>>,
     <<16, 5>>, <<16, 128, 1>>,
     <<8, 1, 16, 5>>, <<8, 172, 2, 16, 128, 1>>,
     <<8, 240, 162, 4, 16, 255, 147, 235, 220, 3>>}

\* the bytes of field 3 of the messages given
TimestampFields == {<< >>} \cup {<<26, Len(b)>> \o b : b \in TimestampBodies}

\* the messages of the wire layout: a UUID, a Timestamp or both
ValidMessages ==
    {u \o t : u \in UuidFields, t \in TimestampFields} \ {<< >>}

\* the string padded to a multiple of four characters
Padded(cs) == cs \o [k \in 1..((4 - (Len(cs) % 4)) % 4) |-> Pad]

\* every valid message as a string without and with its padding
ValidStrings ==
    {b64url_encode_nopad(m) : m \in ValidMessages}
    \cup {Padded(b64url_encode_nopad(m)) : m \in ValidMessages}

SmdDecode ==
    /\ cpc = "input"
    /\ decoded' = decode_server_message_data(smd)
    /\ cpc' = "decoded"
    /\ UNCHANGED <<smd, encoded, enc, session, reorderVars, chatVars, streamVars, loopVars,
                   authVars, schemaVars>>

SmdEncode ==
    /\ cpc = "decoded"
    /\ ~decoded.raised
    /\ ~decoded.error
    /\ encoded' = encode_server_message_data(decoded.uuid, decoded.seconds, decoded.nanos)
    /\ cpc' = "done"
    /\ UNCHANGED <<smd, decoded, enc, session, reorderVars, chatVars, streamVars, loopVars,
                   authVars, schemaVars>>

InitCodec ==
    /\ smd \in ValidStrings
    /\ decoded = << >>
    /\ encoded = << >>
    /\ cpc = "input"
    /\ enc = NoEnc
    /\ session = NoSession
    /\ ReorderIdle
    /\ ChatIdle
    /\ StreamIdle
    /\ LoopIdle
    /\ AuthIdle
    /\ SchemaIdle

NextCodec ==
    \/ SmdDecode
    \/ SmdEncode

SpecCodec == InitCodec /\ [][NextCodec]_vars

----------------------------------------------------------------------------
(* server_message_data.py: encode_server_message_data followed statement   *)
(* by statement.  An Optional[int] argument is << >> for None and <<v>>    *)
(* for the integer v; vv and out are the locals of _write_varint while it  *)
(* writes that integer, ts is `parts` of _encode_timestamp.                *)

\* the integers given as seconds and nanos
EncodeInts == {-300, -128, -2, -1, 0, 1, 127, 128, 300}

OptionalInts == {<< >>} \cup {<<v>> : v \in EncodeInts}

\* lines 183-188: where the call is once the field named was written
AfterField(field) == IF field = "seconds" THEN "nanos" ELSE "return"

\* lines 178-183: the call starts; _encode_timestamp is called when one of
\* seconds and nanos is given
EncodeCall ==
    /\ enc.pc = "call"
    /\ enc' = [enc EXCEPT !.pc = IF enc.seconds # << >> \/ enc.nanos # << >>
                                 THEN "seconds" ELSE "return"]
    /\ UNCHANGED <<smd, decoded, encoded, cpc, session, reorderVars, chatVars, streamVars,
                   loopVars, authVars, schemaVars>>

\* lines 95-100 and 50-51: a field that is None is left out; for another
\* its key is appended and _write_varint starts with vv = int(v)
EncodeTimestampField ==
    /\ enc.pc \in {"seconds", "nanos"}
    /\ LET value == enc[enc.pc]
       IN  enc' = IF value = << >>
                  THEN [enc EXCEPT !.pc = AfterField(enc.pc)]
                  ELSE [enc EXCEPT !.pc = "loop", !.field = enc.pc,
                                   !.ts = @ \o make_key(IF enc.pc = "seconds" THEN 1 ELSE 2, 0),
                                   !.vv = value[1], !.out = << >>]
    /\ UNCHANGED <<smd, decoded, encoded, cpc, session, reorderVars, chatVars, streamVars,
                   loopVars, authVars, schemaVars>>

\* lines 52-59: one iteration of `while True`.  vv & 0x7F and vv >>= 7 on
\* a Python int are vv mod 128 and the floor of vv / 128.
WriteVarintStep ==
    /\ enc.pc = "loop"
    /\ Len(enc.out) < MaxVarintBytes
    /\ LET to_write == enc.vv % 128
           vv == enc.vv \div 128
       IN  enc' = IF vv # 0
                  THEN [enc EXCEPT !.vv = vv, !.out = Append(@, to_write + 128)]
                  ELSE [enc EXCEPT !.vv = vv, !.out = Append(@, to_write),
                                   !.ts = @ \o Append(enc.out, to_write),
                                   !.pc = AfterField(enc.field)]
    /\ UNCHANGED <<smd, decoded, encoded, cpc, session, reorderVars, chatVars, streamVars,
                   loopVars, authVars, schemaVars>>

\* lines 177-189: the uuid field, the Timestamp field and the string
\* returned
EncodeReturn ==
    /\ enc.pc = "return"
    /\ encoded' = b64url_encode_nopad(
            (IF enc.uuid # << >>
             THEN make_key(1, 2) \o write_varint(Len(enc.uuid)) \o enc.uuid ELSE << >>)
            \o (IF enc.seconds # << >> \/ enc.nanos # << >>
                THEN make_key(3, 2) \o write_varint(Len(enc.ts)) \o enc.ts ELSE << >>))
    /\ enc' = [enc EXCEPT !.pc = "done"]
    /\ UNCHANGED <<smd, decoded, cpc, session, reorderVars, chatVars, streamVars,
                   loopVars, authVars, schemaVars>>

InitEncode ==
    /\ smd = << >>
    /\ decoded = << >>
    /\ encoded = << >>
    /\ cpc = "off"
    /\ session = NoSession
    /\ enc \in {[NoEnc EXCEPT !.pc = "call", !.uuid = u, !.seconds = s, !.nanos = n] :
                   u \in {<< >>, <<97, 98>>}, s \in OptionalInts, n \in OptionalInts}
    /\ ReorderIdle
    /\ ChatIdle
    /\ StreamIdle
    /\ LoopIdle
    /\ AuthIdle
    /\ SchemaIdle

NextEncode ==
    \/ EncodeCall
    \/ EncodeTimestampField
    \/ WriteVarintStep
    \/ EncodeReturn

SpecEncode == InitEncode /\ [][NextEncode]_vars

----------------------------------------------------------------------------
(* core/stream_processor.py: StreamSession.  A chunk is its length in      *)
(* bytes, whether protobuf_to_dict parses it, and the dict it parses to.   *)

ChunkData(size, parses, json) == [size |-> size, parses |-> parses, json |-> json]

\* the chunks a session is given: three that parse, the empty one among
\* them, and one that does not
Chunks ==
    {ChunkData(2, TRUE, "d1"), ChunkData(5, TRUE, "d2"), ChunkData(0, TRUE, "d0"),
     ChunkData(3, FALSE, "")}

\* lines 67-78: __init__; received is what process_chunk was called with
NewSession ==
    [pc |-> "open", received |-> << >>, chunks |-> << >>, chunk_count |-> 0,
     total_size |-> 0, parsed_chunks |-> << >>, result |-> << >>]

\* lines 80-120: process_chunk
ProcessChunk ==
    \E chunk_data \in Chunks :
        /\ session.pc = "open"
        /\ session.chunk_count < MaxChunks
        /\ session' = [session EXCEPT
              !.received = Append(@, chunk_data),
              !.chunk_count = @ + 1,
              !.total_size = @ + chunk_data.size,
              !.chunks = Append(@, chunk_data),
              !.parsed_chunks = IF chunk_data.parses THEN Append(@, chunk_data.json) ELSE @]
        /\ UNCHANGED <<smd, decoded, encoded, cpc, enc, reorderVars, chatVars,
                       streamVars, loopVars, authVars, schemaVars>>

\* lines 135-146: result["chunks"]; parsed_data "" is a chunk_info without
\* the key
ChunkInfos(chunks, parsed_chunks) ==
    [i \in 1..Len(chunks) |->
        [index |-> i - 1, size |-> chunks[i].size,
         has_parsed |-> i <= Len(parsed_chunks),
         parsed_data |-> IF i <= Len(parsed_chunks) THEN parsed_chunks[i] ELSE ""]]

\* lines 122-174: finalize.  The joined bytes of chunks that all parse are
\* a message that parses; with a chunk that does not, they may or may not
Finalize ==
    \E assembly_successful \in BOOLEAN :
        /\ session.pc = "open"
        /\ (\A i \in 1..Len(session.chunks) : session.chunks[i].parses)
              => assembly_successful
        /\ session' = [session EXCEPT
              !.pc = "finalized",
              !.result = [chunk_count |-> session.chunk_count,
                          total_size |-> session.total_size,
                          chunks |-> ChunkInfos(session.chunks, session.parsed_chunks),
                          assembly_successful |-> assembly_successful]]
        /\ UNCHANGED <<smd, decoded, encoded, cpc, enc, reorderVars, chatVars,
                       streamVars, loopVars, authVars, schemaVars>>

InitSession ==
    /\ smd = << >>
    /\ decoded = << >>
    /\ encoded = << >>
    /\ cpc = "off"
    /\ enc = NoEnc
    /\ session = NewSession
    /\ ReorderIdle
    /\ ChatIdle
    /\ StreamIdle
    /\ LoopIdle
    /\ AuthIdle
    /\ SchemaIdle

NextSession ==
    \/ ProcessChunk
    \/ Finalize

SpecSession == InitSession /\ [][NextSession]_vars

----------------------------------------------------------------------------
(* Claims about the chat handler (checked under Spec)                      *)

\* attach_user_and_tools_to_inputs returned normally for the current request
PacketBuilt ==
    \/ pc \in {"built", "refresh", "retry", "respond"}
    \/ pc = "done" /\ reply.status \in {200, 502}

\* C1: for every ChatRequest, the packet built by chat_completions has
\* exactly one element in input.user_inputs.inputs[].
C1_ExactlyOneInput ==
    PacketBuilt => Len(packet.inputs) = 1

\* a packet built from a two-message history whose last input is a tool result
C1_Witness ==
    /\ pc = "built"
    /\ Len(req.messages) = 2
    /\ Len(packet.inputs) = 1
    /\ packet.inputs[1].kind = "tool_call_result"

\* C6: once a successful reply has set STATE.conversation_id it is never
\* reset to empty, and every chat packet built afterwards carries
\* metadata.conversation_id equal to the current STATE.conversation_id and
\* the current STATE.baseline_task_id as tasks[0].id and active_task_id.
C6_ConversationCarried ==
    [][ /\ State.conversation_id # "" => State'.conversation_id # ""
        /\ (pc = "build" /\ pc' = "built" /\ State'.conversation_id # "")
           => /\ packet'.conversation_id = State'.conversation_id
              /\ packet'.task_context.tasks[1].id = State'.baseline_task_id
              /\ packet'.task_context.active_task_id = State'.baseline_task_id ]_vars

\* a packet built after a chat reply moved the conversation from c1 to c2
C6_Witness ==
    /\ pc = "built"
    /\ State.conversation_id = "c2"
    /\ packet.conversation_id = "c2"
    /\ packet.task_context.active_task_id = "t1"
    /\ packet.task_context.tasks[1].id = "t1"

\* the bridge answered every POST of the request, the last answer was not
\* a 200 and the handler has replied
BridgeAnsweredNon200 ==
    /\ pc = "done"
    /\ statuses # << >>
    /\ Len(statuses) = posts
    /\ statuses[Len(statuses)] # 200

\* C17: when the bridge answers the non-streaming POST with a non-200
\* status (after the single 429 retry), the handler responds with that same
\* status code; 502 is returned only when the bridge could not be reached.
C17_StatusPassthrough ==
    /\ BridgeAnsweredNon200 => reply.status = statuses[Len(statuses)]
    /\ (pc = "done" /\ reply.status = 502) => Len(statuses) < posts

\* the named call_mcp_tool tool_calls of the add_messages_to_task actions of
\* parsed_events, in event order
NamedToolCalls(parsed_events) ==
    Flatten([i \in 1..Len(parsed_events) |->
        Flatten([j \in 1..Len(parsed_events[i].actions) |->
            LET action == parsed_events[i].actions[j]
            IN  IF action.kind # "add_messages_to_task" THEN << >>
                ELSE Flatten([k \in 1..Len(action.messages) |->
                        IF action.messages[k].kind = "tool_call"
                           /\ action.messages[k].name # ""
                        THEN <<action.messages[k]>> ELSE << >>])])])

Completed == pc = "done" /\ reply.status = 200 /\ reply.kind = "completion"

\* C19: the non-streaming completion has finish_reason "tool_calls" if and
\* only if at least one named call_mcp_tool tool_call was found in the
\* add_messages_to_task actions of parsed_events, in which case
\* message.tool_calls lists them in event order; otherwise finish_reason is
\* "stop" and message.content is the bridge's response text.
C19_CompletionFinishReason ==
    Completed =>
        LET named == NamedToolCalls(bridge_resp.parsed_events)
        IN  /\ reply.finish_reason = "tool_calls" <=> named # << >>
            /\ named # << >> =>
                  /\ Len(reply.tool_calls) = Len(named)
                  /\ \A i \in 1..Len(named) :
                        /\ reply.tool_calls[i].name = named[i].name
                        /\ reply.tool_calls[i].id =
                              IF named[i].tool_call_id # "" THEN named[i].tool_call_id
                              ELSE FreshUuid
            /\ named = << >> =>
                  /\ reply.finish_reason = "stop"
                  /\ reply.content = bridge_resp.response

\* a completion built from three events, two of them carrying named
\* tool_calls, next to text and to an unnamed tool_call
C19_Witness ==
    /\ Completed
    /\ bridge_resp.parsed_events = <<TextEvent, ToolEvent2, ToolEvent>>
    /\ reply.finish_reason = "tool_calls"
    /\ Len(reply.tool_calls) = 3
    /\ reply.tool_calls[1].id = "m"
    /\ reply.tool_calls[3].id = "k"

----------------------------------------------------------------------------
(* Claims about both paths of a chat request (checked under SpecCompat)    *)

\* C18: per chat request at most two chat POSTs are sent to the bridge, on
\* the streaming and on the non-streaming path; the second is sent only
\* when the first returned 429, it is preceded by exactly one call to
\* /api/auth/refresh, and a failure of that call does not prevent the retry.
C18_AtMostTwoPosts ==
    /\ posts <= 2
    /\ Len(refreshes) <= 1
    /\ posts = 2 => (statuses[1] = 429 /\ Len(refreshes) = 1)
    /\ refreshes # << >> => statuses[1] = 429
    /\ (refreshes # << >> /\ (pc = "done" \/ pc = "respond") /\ spc \in {"off", "streaming", "done", "failed"})
           => posts = 2

\* a streaming and a non-streaming request whose refresh call raised and
\* whose second POST was answered 200
C18_Witness ==
    /\ posts = 2
    /\ refreshes = <<"raised">>
    /\ statuses = <<429, 200>>
    /\ spc = "streaming" \/ pc = "respond"

----------------------------------------------------------------------------
(* Claims about the streaming generator (checked under SpecStream)         *)

\* the stream is over and the bridge was unreachable or its last answer
\* was not a 200
BridgeFailedStream ==
    /\ spc \in {"done", "failed"}
    /\ \/ Len(statuses) < posts
       \/ statuses[Len(statuses)] # 200

\* C11: when the bridge is unreachable or answers non-200 (after the single
\* 429 retry), stream_openai_sse emits a chunk with empty delta,
\* finish_reason "error" and an error message, followed by 'data: [DONE]',
\* and these are the last two items of the stream.
C11_ErrorChunkThenDone ==
    BridgeFailedStream =>
        /\ Len(out) >= 2
        /\ out[Len(out) - 1].kind = "finish"
        /\ out[Len(out) - 1].finish_reason = "error"
        /\ out[Len(out) - 1].error # ""
        /\ out[Len(out) - 1].text = << >>
        /\ out[Len(out)] = Done
        /\ \A i \in 1..(Len(out) - 2) : out[i].kind \notin {"finish", "DONE"}

\* a stream retried after a 429 and answered 500 on the retry
C11_Witness ==
    /\ spc = "failed"
    /\ statuses = <<429, 500>>
    /\ out = <<RoleChunk, ErrorChunk, Done>>

InitEvents == {i \in 1..Len(upstream) : upstream[i].kind = "init"}

LastInitEvent == upstream[CHOOSE i \in InitEvents : \A j \in InitEvents : j <= i]

\* C5: after any successful chat completion, streaming or non-streaming,
\* STATE.conversation_id and STATE.baseline_task_id have been updated from
\* the ids carried by that response.
C5_StateUpdatedOnSuccess ==
    /\ (pc = "done" /\ reply.status = 200 /\ reply.kind = "completion")
       => /\ bridge_resp.conversation_id # ""
             => State.conversation_id = bridge_resp.conversation_id
          /\ bridge_resp.task_id # ""
             => State.baseline_task_id = bridge_resp.task_id
    /\ (spc = "done" /\ InitEvents # {})
       => /\ State.conversation_id = LastInitEvent.conversation_id
          /\ State.baseline_task_id = LastInitEvent.task_id

\* C7: every stream starts with the role-only chunk, and that chunk is
\* emitted exactly once per request, also when the first attempt got a 429
\* and the stream was retried.
C7_RoleChunkFirstOnce ==
    spc \notin {"off", "start"} =>
        /\ Len(out) >= 1
        /\ out[1] = RoleChunk
        /\ \A i \in 2..Len(out) : out[i].kind # "role"

\* a retried stream (429, then 200) that went on to emit content
C7_Witness ==
    /\ spc = "done"
    /\ statuses = <<429, 200>>
    /\ Len(refreshes) = 1
    /\ \E i \in 2..Len(out) : out[i].kind = "content"

FinishChunks == {i \in 1..Len(out) : out[i].kind = "finish"}

\* C8: a stream that ends without error emits exactly one chunk carrying a
\* finish_reason, no content or tool_call delta follows it, and it is
\* immediately followed by 'data: [DONE]', the last item of the stream.
C8_OneFinishThenDone ==
    spc = "done" =>
        /\ Cardinality(FinishChunks) = 1
        /\ Len(out) >= 2
        /\ out[Len(out) - 1].kind = "finish"
        /\ out[Len(out)] = Done

\* C9: the finish chunk has finish_reason "tool_calls" if and only if at
\* least one tool_call delta was emitted in this stream (before it), and
\* "stop" otherwise.
C9_FinishReason ==
    \A i \in FinishChunks :
        out[i].finish_reason # "error" =>
            out[i].finish_reason =
                IF \E j \in 1..(i - 1) : out[j].kind = "tool_calls"
                THEN "tool_calls" ELSE "stop"

\* a stream that emitted a tool_call delta and then finished with "tool_calls"
C9_Witness ==
    /\ spc = "done"
    /\ \E i \in FinishChunks :
          /\ out[i].finish_reason = "tool_calls"
          /\ \E j \in 1..(i - 1) : out[j].kind = "tool_calls"

\* every agent_output.text of the events the bridge sent, in source order
ActionTexts(action) ==
    Flatten([i \in 1..Len(action.messages) |->
                IF action.messages[i].kind = "agent_output"
                THEN action.messages[i].text ELSE << >>])

EventTexts(ev) == Flatten([i \in 1..Len(ev.actions) |-> ActionTexts(ev.actions[i])])

UpstreamText == Flatten([i \in 1..Len(upstream) |-> EventTexts(upstream[i])])

EmittedContent ==
    Flatten([i \in 1..Len(out) |-> IF out[i].kind = "content" THEN out[i].text ELSE << >>])

\* C10: the concatenation of all delta.content strings emitted equals the
\* concatenation of all upstream agent_output.text strings, in source order
\* of events, actions within an event and messages within an action.
C10_ContentEqualsUpstreamText ==
    spc \in {"done", "failed"} => EmittedContent = UpstreamText

----------------------------------------------------------------------------
(* Claims about the upstream client (checked under SpecUpstream)           *)

\* C12: send_protobuf_to_warp_api_parsed makes at most two POSTs to the
\* upstream per call; the second happens only when the first returned HTTP
\* 429 with a quota-exhaustion body and acquire_anonymous_access_token
\* succeeded, acquire_anonymous_access_token is invoked at most once, and the
\* second POST carries the newly acquired JWT as its bearer token.
C12_AtMostTwoUpstreamPosts ==
    \A p \in Calls :
        /\ Len(calls[p].sent) <= 2
        /\ calls[p].acquires <= 1
        /\ Len(calls[p].sent) = 2 =>
              /\ calls[p].answers[1] = [status |-> 429, quota |-> TRUE]
              /\ calls[p].acquires = 1
              /\ calls[p].acquired # NoToken
              /\ calls[p].sent[2] = calls[p].acquired
              /\ calls[p].sent[2] # calls[p].sent[1]

\* a call that was answered 429 (quota), acquired a token and was answered
\* 200 on its second POST
C12_Witness ==
    \E p \in Calls :
        /\ calls[p].returned = "ok"
        /\ Len(calls[p].sent) = 2
        /\ calls[p].sent[2] = AnonJwt(p)
        /\ calls[p].answers[2].status = 200

\* call p is inside acquire_anonymous_access_token
Acquiring(p) == calls[p].pc \in {"create_user", "sign_in", "access_token"}

\* C13: when two or more upstream calls running in parallel each receive a
\* quota-exhaustion 429, anonymous acquisition (with its writes of
\* WARP_REFRESH_TOKEN and WARP_JWT to the env file) is performed once, not
\* once per call: no two calls are inside it together.
C13_SingleAcquisition ==
    \A p, q \in Calls : (p # q /\ Acquiring(p)) => ~Acquiring(q)

\* get_valid_jwt of call p has just returned a token
ReturnedJwt(p) == calls[p].pc = "post" /\ Len(calls[p].sent) = 1

\* a refresh was attempted when the JWT read was absent or within 2 minutes
\* of exp
RefreshAttempted(p) ==
    ((ReturnedJwt(p) \/ calls[p].pc \in {"refresh_absent", "refresh_near"})
     /\ (calls[p].loaded = NoToken \/ is_token_expired(calls[p].loaded, 2)))
    => (calls[p].checks # << >> \/ calls[p].pc \in {"refresh_absent", "refresh_near"})

\* no expired token is returned after a refresh that failed
NoUnusableJwt(p) ==
    (ReturnedJwt(p) /\ calls[p].checks # << >>
     /\ ~calls[p].checks[Len(calls[p].checks)])
    => ~is_token_expired(calls[p].sent[1], 0)

\* C16: get_valid_jwt attempts a refresh when the stored JWT is absent or
\* within 2 minutes of exp, and fails with an unauthenticated error, instead
\* of returning a token, whenever the refresh fails and no usable
\* (unexpired) token remains.
C16_GetValidJwt ==
    \A p \in Calls : RefreshAttempted(p) /\ NoUnusableJwt(p)

\* the half of C16 that the code keeps
C16_RefreshAttempted == \A p \in Calls : RefreshAttempted(p)

\* the refresh failed and the call went on with the expired token it held
C16_ExpiredJwtSent ==
    \E p \in Calls :
        /\ ReturnedJwt(p)
        /\ calls[p].loaded = Jwt("j0", -5)
        /\ calls[p].checks = <<FALSE>>
        /\ calls[p].sent = <<Jwt("j0", -5)>>

\* two calls are inside acquire_anonymous_access_token and both have written
\* or will write the env file
C13_TwoAcquisitions == \A p \in Calls : Acquiring(p)

----------------------------------------------------------------------------
(* Claims about the requests of one event loop (checked under SpecLoop)    *)

\* handler h is between its read of STATE and its write of STATE
InReadModifyWrite(h) == handlers[h].pc \in {"post", "write"}

\* C14: the read-modify-write of STATE.conversation_id and
\* STATE.baseline_task_id is mutually exclusive across concurrent chat
\* requests and the warmup, and no update is lost: while a handler is
\* between its read and its write no other handler is, the startup warmup is
\* over, and STATE still holds the ids the handler read.
C14_StateUpdateExclusive ==
    \A h \in Handlers :
        InReadModifyWrite(h) =>
            /\ \A g \in Handlers \ {h} : ~InReadModifyWrite(g) /\ handlers[g].pc \in {"idle", "streaming"}
            /\ loop = h
            /\ handlers[h].read = StateIds(State)

\* a handler is about to write new ids while the generator of another
\* request is still streaming
C14_Witness ==
    \E h, g \in Handlers :
        /\ handlers[h].pc = "write"
        /\ handlers[h].resp.conversation_id \notin {"", State.conversation_id}
        /\ State.conversation_id # ""
        /\ handlers[g].pc = "streaming"

\* C15: initialize_once runs under a single-flight guard: the warmup request
\* is not performed again by a request that arrives while or after another
\* caller performs it.
C15_WarmupOnce == warmups <= 1

\* the startup warmup was answered without a conversation_id and the first
\* request has performed the warmup again
C15_WarmupRepeated ==
    /\ warmups = 2
    /\ \E h \in Handlers : handlers[h].pc = "build"

----------------------------------------------------------------------------
(* Claims about the schema sanitizer (checked under SpecSchema)            *)

NonEmptyString(v) == v.t = "str" /\ strip(v.s) # << >>

\* every entry of the properties of d has a non-empty string type and
\* description
PropertiesDescribed(d) ==
    Get(d, <<"properties">>).t = "dict" =>
        \A i \in 1..Len(Get(d, <<"properties">>).kids) :
            LET p == Get(d, <<"properties">>).kids[i].v
            IN  /\ p.t = "dict"
                /\ NonEmptyString(Get(p, <<"type">>))
                /\ NonEmptyString(Get(p, <<"description">>))

\* required, when d has it, is a non-empty list of keys of properties
RequiredWithinProperties(d) ==
    Has(d, <<"required">>) =>
        /\ Get(d, <<"required">>).t = "list"
        /\ Get(d, <<"required">>).kids # << >>
        /\ Get(d, <<"properties">>).t = "dict"
        /\ \A i \in 1..Len(Get(d, <<"required">>).kids) :
              LET r == Get(d, <<"required">>).kids[i].v
              IN  r.t = "str" /\ Has(Get(d, <<"properties">>), r.s)

\* the sanitizer has processed the input_schema
Sanitized == zpc = "sanitized" \/ (zpc = "done" /\ sanitized.t = "dict" /\ sanitized.kids # << >>)

\* C20: for every tool input_schema processed by the schema sanitizer, every
\* entry of properties has a non-empty string type and a non-empty string
\* description, and required, when present, is a non-empty subset of the keys
\* of properties.
C20_SanitizedSchema ==
    Sanitized => PropertiesDescribed(sanitized) /\ RequiredWithinProperties(sanitized)

\* the half of C20 about the entries of properties
C20_PropertiesDescribed == Sanitized => PropertiesDescribed(sanitized)

\* C20 for the schemas whose required is a list or is not given
C20_RequiredList ==
    (Sanitized /\ Get(schema, <<"required">>).t \in {"list", "NoneType"})
        => RequiredWithinProperties(sanitized)

\* a required that is a string naming no property has passed the sanitizer
C20_RequiredNotAList ==
    /\ zpc = "done"
    /\ Get(schema, <<"required">>) = JStr(<<"b">>)
    /\ Get(sanitized, <<"required">>) = JStr(<<"b">>)
    /\ Keys(Get(sanitized, <<"properties">>)) = {<<"a">>}

----------------------------------------------------------------------------
(* Claims about the packet (checked under Spec and SpecLoop)               *)

\* C22: the preamble message (tool_call with server payload "IgIQAQ==") is
\* the first entry of task_context.tasks[0].messages[] in every chat packet,
\* for every history.
C22_PreambleFirst ==
    PacketBuilt =>
        /\ packet.task_context.tasks[1].messages # << >>
        /\ packet.task_context.tasks[1].messages[1].kind = "server_tool_call"
        /\ packet.task_context.tasks[1].messages[1].text = ServerPayload
        /\ \A i \in 2..Len(packet.task_context.tasks[1].messages) :
              packet.task_context.tasks[1].messages[i].kind # "server_tool_call"

\* a packet whose task messages are the preamble followed by two messages of
\* the history
C22_Witness ==
    /\ pc = "built"
    /\ Len(packet.task_context.tasks[1].messages) = 3
    /\ packet.task_context.tasks[1].messages[1].kind = "server_tool_call"
    /\ packet.task_context.tasks[1].messages[2].kind = "user_query"

\* the reordered history of the request does not end with a user message or
\* a tool message with a tool_call_id
ProtocolViolation ==
    LET h == reorder_messages_for_anthropic(req.messages)
    IN  \/ h = << >>
        \/ /\ h[Len(h)].role # "user"
           /\ ~(h[Len(h)].role = "tool" /\ h[Len(h)].tool_call_id # "")

\* C25: if the final message of the reordered history is neither a user
\* message nor a tool message with a tool_call_id, the chat request fails
\* fast before any chat request is sent to the bridge, and
\* input.user_inputs.inputs[] receives no entry.
C25_ProtocolViolationFailsFast ==
    (pc \in {"built", "refresh", "retry", "respond", "done"}
     /\ req.messages # << >> /\ ProtocolViolation)
        => /\ pc = "done"
           /\ reply = Reply(500, "error")
           /\ posts = 0
           /\ statuses = << >>
           /\ packet.inputs = << >>

\* a request whose history ends with an assistant message has failed
C25_Witness ==
    /\ pc = "done"
    /\ Len(req.messages) = 2
    /\ req.messages[2].role = "assistant"
    /\ reply.status = 500
    /\ posts = 0

\* C23: after the first call of ensure_tool_ids, STATE.tool_call_id and
\* STATE.tool_message_id never change, under any sequence or interleaving of
\* warmup and chat requests, and every packet's preamble uses exactly these
\* two values as tool_call_id and message id.
C23_ToolIdsStable ==
    [][ /\ State.tool_call_id # "" => State'.tool_call_id = State.tool_call_id
        /\ State.tool_message_id # "" => State'.tool_message_id = State.tool_message_id
        /\ \A h \in Handlers :
              handlers'[h].pc \in {"post", "write", "streaming"} =>
                 /\ State'.tool_call_id # ""
                 /\ State'.tool_message_id # ""
                 /\ handlers'[h].preamble.tool_call_id = State'.tool_call_id
                 /\ handlers'[h].preamble.id = State'.tool_message_id ]_vars

\* two requests in progress whose packets carry the same preamble ids, after
\* the warmup of the startup hook minted them
C23_Witness ==
    \E h, g \in Handlers :
        /\ h # g
        /\ handlers[h].pc = "streaming"
        /\ handlers[g].pc = "write"
        /\ handlers[h].preamble = handlers[g].preamble
        /\ handlers[h].preamble.tool_call_id # ""
        /\ State.conversation_id = ""

----------------------------------------------------------------------------
(* Claims about shared tool_call ids (checked under SpecReorder)           *)

\* the indices of the assistants of ms that carry the tool_call id x, and of
\* the tool results of ms that answer it
AssistantsWith(ms, x) ==
    {i \in 1..Len(ms) : ms[i].role = "assistant" /\ x \in Range(CallIds(ms[i]))}

ToolResultsWith(ms, x) ==
    {i \in 1..Len(ms) : ms[i].role = "tool" /\ ms[i].tool_call_id = x}

\* the tool_call ids that several assistants of the history carry and that
\* some tool result answers
SharedIds ==
    {x \in assistant_tc_ids(Expanded) :
        Cardinality(AssistantsWith(Expanded, x)) > 1 /\ ToolResultsWith(Expanded, x) # {}}

\* the first assistant of the output that carries x is followed by a tool
\* result of x
FirstWins(x) ==
    /\ AssistantsWith(result, x) # {}
    /\ LET i == CHOOSE j \in AssistantsWith(result, x) :
                    \A k \in AssistantsWith(result, x) : j <= k
       IN  i + 1 \in ToolResultsWith(result, x)

\* every tool result of x is still in the output
ResultsRemain(x) ==
    \A i \in ToolResultsWith(Expanded, x) :
        Cardinality({j \in ToolResultsWith(result, x) : result[j] = Expanded[i]})
            >= Cardinality({j \in ToolResultsWith(Expanded, x) : Expanded[j] = Expanded[i]})

\* C24: when several assistant messages carry the same tool_call id,
\* reorder_messages_for_anthropic pairs the first of them with the tool
\* result of that id, and every further tool result with that id remains in
\* the output.
C24_SharedIdFirstWins ==
    rpc = "done" => \A x \in SharedIds : FirstWins(x) /\ ResultsRemain(x)

\* the half of C24 that the code keeps: the first assistant is paired
C24_FirstWins ==
    rpc = "done" => \A x \in SharedIds : FirstWins(x)

\* two assistants carry a, the results x and y answer it, and y is not in
\* the output
C24_ResultDropped ==
    /\ rpc = "done"
    /\ Len(history) = 4
    /\ Cardinality(AssistantsWith(history, "a")) = 2
    /\ \E i \in ToolResultsWith(history, "a") : history[i].content = StrContent(<<"y">>)
    /\ \A j \in 1..Len(result) : result[j].content # StrContent(<<"y">>)

----------------------------------------------------------------------------
(* Claims about events that cannot be decoded (checked under SpecStream)   *)

\* the payload collected so far is not one well-formed event
BadCurrent ==
    /\ current # << >>
    /\ ~(Len(current) = 1 /\ current[1].valid /\ current[1].event # NotAnObject)

\* the payload collected so far is not JSON
UnparseableCurrent ==
    /\ current # << >>
    /\ ~(Len(current) = 1 /\ current[1].valid)

\* this step reads the blank line that ends the collected payload
EndsEvent == spc = "streaming" /\ current # << >> /\ current' = << >>

\* C26: a failure to decode a single event (unparseable payload or malformed
\* event data) is skipped and does not terminate the stream: the generator
\* yields nothing for it and goes on reading.
C26_DecodeErrorSkipped ==
    [][ (EndsEvent /\ BadCurrent) =>
           /\ spc' = "streaming"
           /\ out' = out
           /\ tool_calls_emitted' = tool_calls_emitted ]_vars

\* the half of C26 that the code keeps: a payload that is not JSON is skipped
C26_UnparseableSkipped ==
    [][ (EndsEvent /\ UnparseableCurrent) =>
           /\ spc' = "streaming"
           /\ out' = out
           /\ tool_calls_emitted' = tool_calls_emitted ]_vars

\* a payload that is not JSON was skipped and the text event after it was
\* emitted
C26_LaterEventEmitted ==
    /\ spc = "streaming"
    /\ nlines = 4
    /\ upstream = <<TextEvent>>
    /\ out = <<RoleChunk, ContentChunk(<<"h">>), ContentChunk(<<"i">>)>>

\* a payload that is JSON but not an object has ended the stream
C26_StreamTerminated ==
    /\ spc = "failed"
    /\ statuses = <<200>>
    /\ nlines = 2
    /\ out = <<RoleChunk, ErrorChunk, Done>>

----------------------------------------------------------------------------
(* Claims about failures and acquisition (checked under SpecUpstream)      *)

\* the last answer call p received is a non-200 other than a quota 429 on
\* the first attempt
SurfacedAnswer(p) ==
    /\ calls[p].answers # << >>
    /\ LET a == calls[p].answers[Len(calls[p].answers)]
       IN  /\ a.status # 200
           /\ ~(Len(calls[p].answers) = 1 /\ a.status = 429 /\ a.quota)

\* C27: when the upstream answers with a non-200 status that is not a
\* first-attempt quota-exhaustion 429, the upstream client makes no further
\* attempt and no anonymous acquisition, and its result carries the upstream
\* status code and body with no conversation_id or task_id.
C27_NonRetriableSurfaced ==
    \A p \in Calls :
        SurfacedAnswer(p) =>
            /\ calls[p].pc = "done"
            /\ calls[p].returned = "error"
            /\ Len(calls[p].sent) = Len(calls[p].answers)
            /\ calls[p].acquires = Len(calls[p].answers) - 1
            /\ calls[p].result = ErrorResult(calls[p].answers[Len(calls[p].answers)])
            /\ calls[p].result.conversation_id = ""
            /\ calls[p].result.task_id = ""

\* a call answered 429 without the quota text has returned the 429 after
\* one POST, and another one has returned the 500 of its second attempt
C27_Witness ==
    \E p, q \in Calls :
        /\ calls[p].answers = <<[status |-> 429, quota |-> FALSE]>>
        /\ calls[p].result.status = 429
        /\ calls[p].acquires = 0
        /\ Len(calls[q].answers) = 2
        /\ calls[q].result.status = 500
        /\ calls[q].acquires = 1

\* the refresh tokens acquire_anonymous_access_token may have persisted
AnonRefreshTokens == {AnonRefreshToken(q) : q \in Calls}

----------------------------------------------------------------------------
(* Claims about check_and_refresh_token (checked under SpecRefresh)        *)

C28_NoRequest ==
    /\ calls[1].pc = "done"
    /\ calls[1].current_jwt = Jwt("j0", 16)
    /\ calls[1].requests = 0
    /\ dotenv.WARP_JWT = Jwt("j0", -5)

----------------------------------------------------------------------------
(* Claims about the delta decoder (checked under SpecDeltas)               *)

\* the deltas of out that carry a finish_reason
FinalDeltas == {i \in 1..Len(out) : out[i].finish_reason # "none"}

\* C30: extract_openai_sse_deltas_from_response emits for a finished event
\* a final delta whose finish_reason is "tool_calls" if any tool_call delta
\* was emitted in this stream, else "stop".
C30_FinishReasonToolCalls ==
    \A i \in FinalDeltas :
        /\ out[i].key = "empty"
        /\ out[i].finish_reason =
              IF \E j \in 1..(i - 1) : out[j].key = "tool_calls"
              THEN "tool_calls" ELSE "stop"

\* what the decoder does: every final delta is empty and says "stop"
C30_FinishReasonStop ==
    \A i \in FinalDeltas : out[i] = Delta("empty", "stop")

\* a stream of a tool call and a finished event has been decoded
C30_StopAfterToolCall ==
    /\ nlines = 2
    /\ upstream = << >>
    /\ out = <<Delta("role", "none"), Delta("tool_calls", "none"), Delta("empty", "stop")>>

----------------------------------------------------------------------------
(* Claims about the server_message_data codec (checked under SpecCodec)    *)

----------------------------------------------------------------------------
(* Claims about initialize_once (checked under Spec)                       *)

\* C31: initialize_once always terminates: it polls /healthz for at most
\* WARMUP_INIT_RETRIES rounds, each failed round counted, and sends the
\* warmup request only after a health round returned 200 (raising without
\* sending it otherwise); it makes at most WARMUP_REQUEST_RETRIES warmup
\* attempts, each failed attempt counted, before raising; and
\* STATE.conversation_id is set only from a warmup or chat response.
C31_InitializeOnceTerminates ==
    [][ /\ pc = "health"
            => /\ rounds < WARMUP_INIT_RETRIES
               /\ pc' = "health" => (rounds' = rounds + 1 /\ health' = "down")
               /\ pc' = "warmup" => health' = "ok"
               /\ pc' \notin {"health", "warmup"}
                    => (rounds + 1 = WARMUP_INIT_RETRIES /\ State' = State)
        /\ pc = "warmup"
            => /\ health = "ok"
               /\ attempts < WARMUP_REQUEST_RETRIES
               /\ pc' = "warmup" => (attempts' = attempts + 1 /\ State' = State)
        /\ pc = "init" => pc' \in {"health", AfterInitialize}
        /\ State'.conversation_id # State.conversation_id
            => \/ pc = "warmup" /\ State'.conversation_id \in ConvIds
               \/ pc = "respond" /\ State'.conversation_id = bridge_resp.conversation_id ]_vars

\* the last warmup attempt of the startup hook is about to be made after
\* a health round that returned 200
C31_Witness ==
    /\ pc = "warmup"
    /\ caller = "startup"
    /\ health = "ok"
    /\ attempts = WARMUP_REQUEST_RETRIES - 1
    /\ State.conversation_id = ""

\* the last health round is about to be made
C31_LastRound ==
    /\ pc = "health"
    /\ rounds = WARMUP_INIT_RETRIES - 1
    /\ health = "down"

----------------------------------------------------------------------------
(* Claims about the system prompt (checked under Spec)                     *)

\* the texts of the system messages of ms that are not blank, in the order
\* of ms
SystemTexts(ms) ==
    LET sys == SelectSeq(ms, LAMBDA m :
                   /\ m.role = "system"
                   /\ \E i \in 1..Len(segments_to_text(normalize_content_to_list(m.content))) :
                         segments_to_text(normalize_content_to_list(m.content))[i] \notin {" ", "\n"})
    IN  [i \in 1..Len(sys) |-> segments_to_text(normalize_content_to_list(sys[i].content))]

\* the fixed block followed by the texts joined with "\n\n"
ExpectedAttachment(ms) ==
    IF SystemTexts(ms) = << >> THEN << >>
    ELSE Alert \o Flatten([i \in 1..Len(SystemTexts(ms)) |->
                    IF i = 1 THEN SystemTexts(ms)[i]
                    ELSE <<"\n\n">> \o SystemTexts(ms)[i]])

\* C32 as stated: the current-turn input carries
\* referenced_attachments.SYSTEM_PROMPT if any system message with non-blank
\* text was collected, its plain_text being the <ALERT> block followed by
\* those texts joined with "\n\n" in their original order, and carries no
\* attachment when there is no such system message.
C32_SystemPromptAttached ==
    PacketBuilt => packet.inputs[1].attachment = ExpectedAttachment(req.messages)

\* C32 as amended: a current-turn input that is a user_query carries the
\* attachment described, and none when no system message has non-blank
\* text; a current-turn input that is a tool_call_result carries none.
C32_SystemPromptOnUserQuery ==
    PacketBuilt =>
        /\ packet.inputs[1].kind = "user_query"
              => packet.inputs[1].attachment = ExpectedAttachment(req.messages)
        /\ packet.inputs[1].kind = "tool_call_result"
              => packet.inputs[1].attachment = << >>

\* two system messages and a blank-free query: the attachment joins both
C32_Witness ==
    /\ PacketBuilt
    /\ packet.inputs[1].kind = "user_query"
    /\ packet.inputs[1].attachment = Alert \o <<"t", "\n\n", "s">>

\* a system message and a final tool result: no attachment
C32_ToolResultInput ==
    /\ PacketBuilt
    /\ packet.inputs[1].kind = "tool_call_result"
    /\ SystemTexts(req.messages) # << >>

----------------------------------------------------------------------------
(* Claims about the reorder pass as a function (checked under SpecReorder) *)

\* how often m occurs in the sequence ms
Count(ms, m) == Cardinality({i \in 1..Len(ms) : ms[i] = m})

\* C33: the output of reorder_messages_for_anthropic is a permutation of
\* the expanded history: no message is dropped and none is duplicated, for
\* every input including repeated tool_call ids and repeated tool results.
C33_Permutation ==
    rpc = "done" =>
        \A m \in Range(Expand(history)) \cup Range(result) :
            Count(result, m) = Count(Expand(history), m)

\* what holds: no message is duplicated or invented
C33_NoDuplicate ==
    rpc = "done" =>
        \A m \in Range(Expand(history)) \cup Range(result) :
            Count(result, m) <= Count(Expand(history), m)

\* C38 as stated: reorder_messages_for_anthropic is idempotent: applying it
\* to its own output returns that output unchanged, for every history.
C38_Idempotent ==
    rpc = "again" => result = history

\* the output ms can be the history of a packet: its last message is a user
\* message or a tool message with an id
EndsWithInput(ms) ==
    /\ ms # << >>
    /\ \/ ms[Len(ms)].role = "user"
       \/ ms[Len(ms)].role = "tool" /\ ms[Len(ms)].tool_call_id # ""

\* C38 as amended: applying reorder_messages_for_anthropic to its own
\* output returns that output unchanged whenever that output ends with a
\* user message or with a tool message that has an id.
C38_IdempotentOnInputs ==
    (rpc = "again" /\ EndsWithInput(history)) => result = history

\* an output that ends with an assistant and is reordered once more
C38_NotIdempotent ==
    /\ rpc = "again"
    /\ result # history
    /\ history[Len(history)].role = "assistant"

\* the pass moved a tool result behind its assistant, and left its own
\* output as it was
C38_Witness ==
    /\ rpc = "again"
    /\ result = history
    /\ Len(result) = 3
    /\ result[1].role = "assistant"
    /\ result[2].role = "tool" /\ result[2].tool_call_id = "a"
    /\ result[3].role = "user"

----------------------------------------------------------------------------
(* The split of the history between task messages and inputs (Spec)       *)

\* the messages among ms[a..b] that are current-turn candidates: user
\* messages and tool messages that have an id
IsInput(m) == m.role = "user" \/ (m.role = "tool" /\ m.tool_call_id # "")

NumInputs(ms) == Cardinality({i \in 1..Len(ms) : IsInput(ms[i])})

\* the task messages and inputs that stand for user or tool-result messages
NumInputKinds(ms) ==
    Cardinality({i \in 1..Len(ms) : ms[i].kind \in {"user_query", "tool_call_result"}})

\* the history the packet of the current request was built from
PacketHistory == reorder_messages_for_anthropic(req.messages)

\* C34: whenever packet building succeeds, the message placed in inputs[]
\* is exactly the one message map_history_to_warp_messages skipped (the
\* last-input index is the final index of the reordered history), so no
\* history message is both in the task messages and in inputs, every user
\* message and every tool message with an id is in exactly one of the two,
\* and the task messages keep the reordered order.
C34_InputIsTheSkippedMessage ==
    PacketBuilt =>
        LET h == PacketHistory
            n == Len(h)
            task == packet.task_context.tasks[1]
        IN  /\ n > 0
            /\ LastInputIndex(h, n) = n
            /\ IsInput(h[n])
            /\ packet.inputs[1].kind =
                  (IF h[n].role = "user" THEN "user_query" ELSE "tool_call_result")
            /\ packet.inputs[1].query =
                  (IF h[n].role = "user"
                   THEN segments_to_text(normalize_content_to_list(h[n].content))
                   ELSE << >>)
            /\ packet.inputs[1].tool_call_id =
                  (IF h[n].role = "user" THEN "" ELSE h[n].tool_call_id)
            /\ packet.inputs[1].results =
                  (IF h[n].role = "user" THEN << >>
                   ELSE segments_to_warp_results(normalize_content_to_list(h[n].content)))
            /\ Tail(task.messages) =
                  Flatten([i \in 1..(n - 1) |-> MapMessage(h[i], task.id)])
            /\ NumInputKinds(task.messages) + Len(packet.inputs) = NumInputs(h)

\* a packet whose history holds an earlier user message and an earlier tool
\* result next to the user message that became the input
C34_Witness ==
    /\ pc = "built"
    /\ Len(PacketHistory) = 3
    /\ NumInputs(PacketHistory) = 3
    /\ PacketHistory[1].role = "tool"
    /\ NumInputKinds(packet.task_context.tasks[1].messages) = 2
    /\ packet.inputs[1].kind = "user_query"

----------------------------------------------------------------------------
(* The token check_and_refresh_token writes (SpecRefresh)                  *)

\* C37: whenever check_and_refresh_token writes a new value to WARP_JWT of
\* the .env file, that token has been checked to be not expired (buffer 0),
\* both when the previous JWT was missing and when it was expiring.
C37_WrittenTokenChecked ==
    [][ dotenv'.WARP_JWT # dotenv.WARP_JWT
          => ~is_token_expired(dotenv'.WARP_JWT, 0) ]_vars

\* the write of the expiring branch: the token written is not expired
C37_ExpiringBranchChecked ==
    [][ (dotenv'.WARP_JWT # dotenv.WARP_JWT /\ calls[1].current_jwt # NoToken)
          => ~is_token_expired(dotenv'.WARP_JWT, 0) ]_vars

\* the missing-JWT branch has written an expired token and returned True
C37_ExpiredWritten ==
    /\ calls[1].pc = "done"
    /\ calls[1].current_jwt = NoToken
    /\ calls[1].returned = "true"
    /\ dotenv.WARP_JWT = Jwt("jr", -5)

----------------------------------------------------------------------------
(* The varint writer of encode_server_message_data (SpecEncode)            *)

Abs(v) == IF v < 0 THEN -v ELSE v

\* C40: encode_server_message_data terminates for every integer seconds
\* and nanos, negative values included: the loop of the varint writer
\* always reaches its exit, that is, every iteration that does not leave
\* the loop brings vv, the one value its exit test reads, closer to 0.
C40_VarintLoopExits ==
    [][ (enc.pc = "loop" /\ enc'.pc = "loop") => Abs(enc'.vv) < Abs(enc.vv) ]_vars

\* for seconds and nanos that are not negative every iteration brings vv
\* closer to 0
C40_NonNegativeExits ==
    [][ (enc.pc = "loop" /\ enc'.pc = "loop" /\ enc[enc.field][1] >= 0)
          => Abs(enc'.vv) < Abs(enc.vv) ]_vars

\* a call given a negative integer never leaves the loop of the writer
C40_NegativeNeverReturns ==
    (enc.pc \in {"return", "done"} /\ enc.field # "") => enc[enc.field][1] >= 0

\* the writer of seconds = -1 after MaxVarintBytes iterations: vv is still
\* -1 and every byte written is 0xFF
C40_StillLooping ==
    /\ enc.pc = "loop"
    /\ enc.seconds = <<-1>>
    /\ enc.vv = -1
    /\ Len(enc.out) = MaxVarintBytes
    /\ \A k \in 1..Len(enc.out) : enc.out[k] = 255

\* what the step-wise encoder returns is what encode_server_message_data
\* returns
C40_SameAsEncode ==
    (enc.pc = "done" /\ (enc.seconds = << >> \/ enc.seconds[1] >= 0)
                    /\ (enc.nanos = << >> \/ enc.nanos[1] >= 0))
      => encoded = encode_server_message_data(
                      IF enc.uuid = << >> THEN NoneStr ELSE enc.uuid,
                      IF enc.seconds = << >> THEN None ELSE enc.seconds[1],
                      IF enc.nanos = << >> THEN None ELSE enc.nanos[1])

----------------------------------------------------------------------------
(* What the packet sanitizer leaves alone (SpecPacket)                     *)

\* the packet without the input_schema of its tools
WithoutInputSchemas(body) ==
    LET mcp_ctx == Get(body, <<"mcp_context">>)
        tools == Get(mcp_ctx, <<"tools">>)
    IN  IF mcp_ctx.t # "dict" \/ tools.t # "list" THEN body
        ELSE Set(body, <<"mcp_context">>,
                 Set(mcp_ctx, <<"tools">>,
                     JList([i \in 1..Len(tools.kids) |->
                              Pop(tools.kids[i].v, <<"input_schema">>)])))

\* C36: sanitize_mcp_input_schema_in_packet changes only
\* mcp_context.tools[*].input_schema: every other part of the packet
\* (task_context with status.in_progress, input, settings, metadata, the
\* arguments of tool calls) is returned unchanged.
C36_OnlyInputSchemasChange ==
    zpc = "returned" => WithoutInputSchemas(sanitized) = WithoutInputSchemas(schema)

\* task_context.tasks[0] of the packet returned has no status
C36_StatusDropped ==
    /\ zpc = "returned"
    /\ Has(Get(Get(schema, <<"task_context">>), <<"tasks">>).kids[1].v, <<"status">>)
    /\ ~Has(Get(Get(sanitized, <<"task_context">>), <<"tasks">>).kids[1].v, <<"status">>)

\* every packet returned has lost status, description and input.context
C36_AlwaysDropped ==
    zpc = "returned" =>
        /\ ~Has(Get(Get(sanitized, <<"task_context">>), <<"tasks">>).kids[1].v, <<"status">>)
        /\ ~Has(Get(Get(sanitized, <<"task_context">>), <<"tasks">>).kids[1].v, <<"description">>)
        /\ ~Has(Get(sanitized, <<"input">>), <<"context">>)

\* without the deep-clean of the whole packet only the input_schemas and
\* the tools they belong to change
C36_ToolsOnly ==
    zpc = "returned" =>
        Pop(sanitized, <<"mcp_context">>) = Pop(deep_clean(schema), <<"mcp_context">>)

----------------------------------------------------------------------------
(* The two aggregations of one upstream stream (SpecAggregate)             *)

BothReturned == calls[1].pc = "returned" /\ calls[2].pc = "returned"

\* C35: for the same upstream event stream, send_protobuf_to_warp_api and
\* send_protobuf_to_warp_api_parsed return the same aggregated response
\* text (the agent_output.text of the append_to_message_content and
\* add_messages_to_task actions, concatenated), the same conversation_id
\* and the same task_id, whenever that text is not empty.
C35_SameAggregate ==
    (BothReturned /\ calls[2].returned[1] # << >>)
        => calls[1].returned = calls[2].returned

\* the two functions return the same conversation_id
C35_SameConversation ==
    BothReturned => calls[1].returned[2] = calls[2].returned[2]

\* no event carries both init and client_actions, so
\* send_protobuf_to_warp_api collects no text at all
C35_PlainCollectsNothing ==
    calls[1].complete_response = << >>

\* a stream with text: the parsed call returns it, the other one the warning
C35_TextLost ==
    /\ BothReturned
    /\ calls[2].returned[1] = <<"h", "i", "j">>
    /\ calls[1].returned[1] = NoContentWarning
    /\ calls[2].returned[3] = "t2"
    /\ calls[1].returned[3] = "t1"

----------------------------------------------------------------------------
(* What StreamSession.finalize reports (SpecSession)                       *)

RECURSIVE TotalSize(_)
TotalSize(chunks) ==
    IF chunks = << >> THEN 0 ELSE Head(chunks).size + TotalSize(Tail(chunks))

\* C39: in the result of StreamSession.finalize, after any sequence of
\* process_chunk calls some of which failed to parse, chunks[i].parsed_data
\* when present is the parse result of the i-th chunk received, and
\* chunk_count and total_size are the number and the total byte length of
\* the chunks received.
C39_FinalizeMatchesChunks ==
    session.pc = "finalized" =>
        /\ session.result.chunk_count = Len(session.received)
        /\ session.result.total_size = TotalSize(session.received)
        /\ Len(session.result.chunks) = Len(session.received)
        /\ \A i \in 1..Len(session.received) :
              session.result.chunks[i].has_parsed
                => /\ session.received[i].parses
                   /\ session.result.chunks[i].parsed_data = session.received[i].json

\* chunk_count, total_size and the sizes of the result are those of the
\* chunks received
C39_CountsMatch ==
    session.pc = "finalized" =>
        /\ session.result.chunk_count = Len(session.received)
        /\ session.result.total_size = TotalSize(session.received)
        /\ Len(session.result.chunks) = Len(session.received)
        /\ \A i \in 1..Len(session.received) :
              session.result.chunks[i].size = session.received[i].size

\* while every chunk given so far parsed, parsed_data is the result of its
\* own chunk
C39_AlignedUntilFailure ==
    session.pc = "finalized" =>
        \A i \in 1..Len(session.received) :
            (\A j \in 1..i : session.received[j].parses)
              => /\ session.result.chunks[i].has_parsed
                 /\ session.result.chunks[i].parsed_data = session.received[i].json

\* the chunk that failed is reported with the parse result of a later one
C39_Misaligned ==
    /\ session.pc = "finalized"
    /\ Len(session.received) = 2
    /\ ~session.received[1].parses
    /\ session.result.chunks[1].has_parsed
    /\ session.result.chunks[1].parsed_data = session.received[2].json
    /\ ~session.result.chunks[2].has_parsed

====
